---------------------------- MODULE Spec2Model ----------------------------
(***************************************************************************)
(* A model of the caption assembly and timing code of syncscribe:          *)
(*   - src/lib/SubtitleWriter.js  (timestamp formatters, line wrapper,     *)
(*     SRT and WebVTT builders)                                            *)
(*   - src/shift-timing.js        (timestamp parser and formatter, the     *)
(*     shifter and its command-line driver)                                *)
(*   - lib/Translator.js (src/unnamed/part_001): translateSegments and     *)
(*     the parsing of the translation service's answer                     *)
(*   - src/lib/SubtitleGenerator.js: generateSubtitles, from the analysis  *)
(*     of the video to the removal of the temporary audio file             *)
(*   - src/extract-audio.js: the batch audio extractor (extractFromVideo,  *)
(*     processDirectory) and the generate-and-sync pipeline (runCommand,   *)
(*     main)                                                               *)
(*                                                                         *)
(* Representation.                                                         *)
(*   A JavaScript string is a sequence of one-character strings, so that   *)
(*   split, join, trim, padding and number formatting are modelled by what *)
(*   they do to the characters.                                            *)
(*   A time in seconds (a JavaScript number with a fractional part) is the *)
(*   integer seconds * 1000 * TicksPerMs, a whole number of ticks; the     *)
(*   product seconds * 1000 is then ticks / TicksPerMs in exact            *)
(*   arithmetic (binary floating-point rounding of the product is not      *)
(*   modelled).                                                            *)
(*   A number that may be NaN (the shifter's millisecond values) is a      *)
(*   record [nan, n].                                                      *)
(***************************************************************************)
EXTENDS Integers, Sequences, FiniteSets, TLC

VARIABLES
    \* ---- one timestamp through the codec ----
    seconds,        \* argument of _formatSRTTimestamp/_formatVTTTimestamp (ticks)
    srtStamp,       \* result of _formatSRTTimestamp(seconds), <<>> before the call
    vttStamp,       \* result of _formatVTTTimestamp(seconds), <<>> before the call
    timestamp,      \* argument of the last parseTimestamp call
    timestampFrom,  \* where that argument came from: "none", "srt", "vtt", "shifted", "raw"
    parsedMs,       \* outcome of the last parseTimestamp call
    totalMs,        \* argument of the last formatTimestamp call
    stamp,          \* result of formatTimestamp(totalMs), <<>> before the call
    \* ---- one call of the line wrapper ----
    text,           \* argument text of _splitTextIntoLines
    maxLength,      \* argument maxLength of _splitTextIntoLines
    textLines,      \* outcome of the call
    \* ---- one SubtitleWriter and the transcription it is given ----
    segments,       \* transcription.segments
    srtBlocks,      \* the blocks _generateSRT built (its local srtBlocks)
    srtContent,     \* outcome of _generateSRT: the text written by writeSubtitles
    vttCues,        \* the cues _generateWebVTT built (its local vttCues)
    vttContent,     \* outcome of _generateWebVTT: the text written by writeWebVTT
    \* ---- one run of the shift-timing command ----
    pc,             \* position of main(): "off", "start", "validated", "read",
                    \* "shifted", "done", "exited"
    inputExists,    \* fs.pathExists(inputFile)
    inputIsSrt,     \* inputFile.endsWith('.srt')
    offsetSeconds,  \* parseFloat(program.args[1]) in ticks, or NaN
    inputContent,   \* the text of the input file
    content,        \* main's local content, once read
    shifted,        \* outcome of shiftSubtitles(content, offsetMs)
    outputFile,     \* outcome of fs.writeFile(outputPath, shifted): the text written
    exitCode,       \* the status the process ended with, -1 while it runs
    firstRun,       \* once the command is run again on the file it generated:
                    \* the content, offset and output of the run before
    \* ---- one translateSegments call of the Translator ----
    translatePc,    \* position of the call: "off", "start", "awaiting",
                    \* "returned", "failed"
    sourceSegments, \* argument segments of translateSegments
    completion,     \* outcome of client.chat.completions.create: the content
                    \* of the first choice's message
    translatedSegments, \* outcome of translateSegments
    \* ---- one generateSubtitles call of the SubtitleGenerator ----
    generatePc,     \* position of the call: "off", "start", "analyzing",
                    \* "prompting", "extracting", "transcribing", "translating",
                    \* "writing", "removing", "returned", "thrown"
    language,       \* options.language, "" when not given
    languages,      \* options.languages, <<>> when not given
    trackNumber,    \* options.trackNumber: Null or a number
    autoConfirm,    \* options.autoConfirm
    audioTracks,    \* videoInfo.audioTracks, once the analysis resolved
    selectedTrack,  \* outcome of the track selection
    audioPath,      \* outcome of videoProcessor.extractAudio: the temporary file
    tmpFileDir,     \* the files in the tmp directory
    transcription,  \* outcome of transcriber.transcribe: its segments
    targetAt,       \* 1-based position of targetLang in targetLanguages
    segmentsToWrite,    \* segments handed to the writeSubtitles call under way
    outputFiles,    \* the subtitle files written, in order: path and content
    events,         \* the calls made and their outcomes, in order
    \* ---- one processDirectory call of the batch audio extractor ----
    batchPc,        \* "off", "scanning", "checking", "analyzing", "extracting",
                    \* "sizing", "returned", "thrown"
    videoFiles,     \* the video files findVideoFiles returns, in order
    extractTrack,   \* trackNumber: parseInt(options.track)
    force,          \* options.force
    mp3Files,       \* the audio files on the disk
    stats,          \* this.stats: total, extracted, skipped, failed
    videoAt,        \* i + 1 of the loop of processDirectory
    batchLog,       \* what was done for which video, in order
    \* ---- one run of generate-and-sync ----
    pipePc,         \* "off", "start", "checkingAudio", "analyzing", "extracting",
                    \* "moving", "transcribing", "syncing", "replacing", "exited"
    inputFile,      \* options.input
    skipSync,       \* options.skipSync
    pipeLanguage,   \* options.language
    pipeFiles,      \* the files on the disk
    pipeLog,        \* the steps started and their outcomes, in order
    exitStatus      \* the exit status of the process, Null while it runs

codecVars == <<seconds, srtStamp, vttStamp, timestamp, timestampFrom, parsedMs,
               totalMs, stamp>>
wrapVars == <<text, maxLength, textLines>>
writerVars == <<segments, srtBlocks, srtContent, vttCues, vttContent>>
shiftVars == <<pc, inputExists, inputIsSrt, offsetSeconds, inputContent, content,
               shifted, outputFile, exitCode, firstRun>>

translateVars == <<translatePc, sourceSegments, completion, translatedSegments>>

generateVars == <<generatePc, language, languages, trackNumber, autoConfirm, audioTracks,
                  selectedTrack, audioPath, tmpFileDir, transcription, targetAt,
                  segmentsToWrite, outputFiles, events>>

batchVars == <<batchPc, videoFiles, extractTrack, force, mp3Files, stats, videoAt,
               batchLog>>

pipelineVars == <<pipePc, inputFile, skipSync, pipeLanguage, pipeFiles, pipeLog,
                  exitStatus>>

vars == <<codecVars, wrapVars, writerVars, shiftVars, translateVars, generateVars,
          batchVars, pipelineVars>>

-----------------------------------------------------------------------------
(* Bounds of the model *)

\* sub-millisecond resolution of a time in seconds
TicksPerMs == 2

\* longest text and widest line given to the line wrapper on its own
MaxTextLen == 5
MaxWidth == 3

\* most segments in a transcription
MaxSegments == 2

\* most lines in the track given to the shifter
MaxTrackLines == 2
MaxResponseLines == 2

-----------------------------------------------------------------------------
(* JavaScript strings and numbers *)

DigitChars == <<"0", "1", "2", "3", "4", "5", "6", "7", "8", "9">>

IsDigit(c) == \E d \in 1..10 : DigitChars[d] = c

DigitValue(c) == (CHOOSE d \in 1..10 : DigitChars[d] = c) - 1

\* Number.prototype.toString of a non-negative integer
RECURSIVE NatToString(_)
NatToString(n) ==
    IF n < 10 THEN <<DigitChars[n + 1]>>
    ELSE NatToString(n \div 10) \o <<DigitChars[(n % 10) + 1]>>

\* Number.prototype.toString of an integer (-0 prints as "0")
IntToString(n) == IF n < 0 THEN <<"-">> \o NatToString(-n) ELSE NatToString(n)

\* The JavaScript remainder a % b for b > 0: the sign follows the dividend
JsRem(a, b) == IF a >= 0 THEN a % b ELSE -((-a) % b)

\* A number that may be NaN
Num(n) == [nan |-> FALSE, n |-> n]
NaN == [nan |-> TRUE, n |-> 0]
NaNString == <<"N", "a", "N">>

\* String.prototype.split with a one-character separator: the piece before
\* the first occurrence of the separator, then the pieces of the rest
RECURSIVE split(_, _)
split(s, c) ==
    LET at == {i \in 1..Len(s) : s[i] = c}
    IN  IF at = {} THEN <<s>>
        ELSE LET p == CHOOSE i \in at : \A j \in at : i <= j
             IN  <<SubSeq(s, 1, p - 1)>> \o split(SubSeq(s, p + 1, Len(s)), c)

\* Array.prototype.join
RECURSIVE join(_, _)
join(list, sep) ==
    IF Len(list) = 0 THEN <<>>
    ELSE IF Len(list) = 1 THEN list[1]
    ELSE list[1] \o sep \o join(Tail(list), sep)

\* Number(s) for a string over digits, '-', '+' and other non-blank
\* characters: the empty string is 0, an optionally signed run of digits is
\* its value, anything else is NaN
RECURSIVE DigitsToNat(_)
DigitsToNat(s) ==
    IF Len(s) = 0 THEN 0
    ELSE DigitsToNat(SubSeq(s, 1, Len(s) - 1)) * 10 + DigitValue(s[Len(s)])

AllDigits(s) == \A i \in 1..Len(s) : IsDigit(s[i])

ToNumber(s) ==
    IF Len(s) = 0 THEN Num(0)
    ELSE IF AllDigits(s) THEN Num(DigitsToNat(s))
    ELSE IF s[1] \in {"-", "+"} /\ Len(s) > 1 /\ AllDigits(Tail(s))
         THEN Num(IF s[1] = "-" THEN -DigitsToNat(Tail(s)) ELSE DigitsToNat(Tail(s)))
    ELSE NaN

\* a + b and a * k on numbers that may be NaN
NumAdd(a, b) == IF a.nan \/ b.nan THEN NaN ELSE Num(a.n + b.n)
NumScale(a, k) == IF a.nan THEN NaN ELSE Num(a.n * k)

-----------------------------------------------------------------------------
(* SubtitleWriter: the timestamp formatters *)

\* _pad(num, size): prepend '0' while the text is shorter than size
RECURSIVE padLoop(_, _)
padLoop(s, size) == IF Len(s) < size THEN padLoop(<<"0">> \o s, size) ELSE s

pad(num, size) == padLoop(IntToString(num), size)

\* mutant: the hours wrap around at 24
stampFieldsMod24(secs) ==
    LET totalMilliseconds == secs \div TicksPerMs
        totalSeconds == totalMilliseconds \div 1000
        totalMinutes == totalSeconds \div 60
    IN  [milliseconds |-> JsRem(totalMilliseconds, 1000),
         secs |-> JsRem(totalSeconds, 60),
         mins |-> JsRem(totalMinutes, 60),
         hours |-> JsRem(totalMinutes \div 60, 24)]

\* the fields both formatters compute from seconds
\* (Math.floor is \div, which rounds toward minus infinity; % is JsRem)
stampFields(secs) ==
    LET totalMilliseconds == secs \div TicksPerMs
        totalSeconds == totalMilliseconds \div 1000
        totalMinutes == totalSeconds \div 60
    IN  [milliseconds |-> JsRem(totalMilliseconds, 1000),
         secs |-> JsRem(totalSeconds, 60),
         mins |-> JsRem(totalMinutes, 60),
         hours |-> totalMinutes \div 60]

formatSRTTimestamp(secs) ==
    LET f == stampFields(secs)
    IN  pad(f.hours, 2) \o <<":">> \o pad(f.mins, 2) \o <<":">> \o pad(f.secs, 2)
            \o <<",">> \o pad(f.milliseconds, 3)

\* mutant: the WebVTT formatter keeps the comma of the SRT formatter
formatVTTTimestampComma(secs) == formatSRTTimestamp(secs)

formatVTTTimestamp(secs) ==
    LET f == stampFields(secs)
    IN  pad(f.hours, 2) \o <<":">> \o pad(f.mins, 2) \o <<":">> \o pad(f.secs, 2)
            \o <<".">> \o pad(f.milliseconds, 3)

-----------------------------------------------------------------------------
(* shift-timing: parseTimestamp and formatTimestamp *)

\* the i-th element of a destructured array: undefined when the array is shorter
Undefined == <<"undefined">>
elementAt(list, i) == IF i <= Len(list) THEN list[i] ELSE Undefined

\* Number(x) where x is a string or undefined
NumberOf(x) == IF x = Undefined THEN NaN ELSE ToNumber(x)

\* outcome of a call: a returned value or a thrown error
Returned(v) == [called |-> TRUE, threw |-> FALSE, value |-> v]
Thrown == [called |-> TRUE, threw |-> TRUE, value |-> <<>>]
NotCalled == [called |-> FALSE, threw |-> FALSE, value |-> <<>>]

\* mutant: the hours are scaled like minutes
parseTimestampValueHours60(ts) ==
    LET parts == split(ts, ",")
        fields == split(parts[1], ":")
        hours == NumberOf(IF 1 <= Len(fields) THEN fields[1] ELSE <<"undefined">>)
        minutes == NumberOf(IF 2 <= Len(fields) THEN fields[2] ELSE <<"undefined">>)
        secs == NumberOf(IF 3 <= Len(fields) THEN fields[3] ELSE <<"undefined">>)
    IN  NumAdd(NumScale(NumAdd(NumAdd(NumScale(hours, 60), NumScale(minutes, 60)),
                               secs), 1000),
               NumberOf(IF 2 <= Len(parts) THEN parts[2] ELSE <<"undefined">>))

\* mutant: the milliseconds after the comma are not added
parseTimestampValueNoMillis(ts) ==
    LET fields == split(split(ts, ",")[1], ":")
    IN  NumScale(NumAdd(NumAdd(NumScale(NumberOf(elementAt(fields, 1)), 3600),
                               NumScale(NumberOf(elementAt(fields, 2)), 60)),
                        NumberOf(elementAt(fields, 3))), 1000)

\* the value computed by parseTimestamp for a string: NaN as soon as one
\* field is missing or not numeric
parseTimestampValue(ts) ==
    LET parts == split(ts, ",")
        time == parts[1]
        ms == elementAt(parts, 2)
        fields == split(time, ":")
        hours == NumberOf(elementAt(fields, 1))
        minutes == NumberOf(elementAt(fields, 2))
        secs == NumberOf(elementAt(fields, 3))
    IN  NumAdd(NumScale(NumAdd(NumAdd(NumScale(hours, 3600), NumScale(minutes, 60)),
                               secs), 1000),
               NumberOf(ms))

\* parseTimestamp(timestamp): undefined.split throws a TypeError; a string
\* always yields a value
parseTimestamp(ts) ==
    IF ts = Undefined THEN Thrown ELSE Returned(parseTimestampValue(ts))

\* String(num).padStart(len, '0')
padStart(s, len) == padLoop(s, len)

\* mutant: a negative value is turned positive instead of clamped to 0
formatTimestampAbs(t) ==
    IF t.nan
    THEN padStart(NaNString, 2) \o <<":">> \o padStart(NaNString, 2) \o <<":">>
             \o padStart(NaNString, 2) \o <<",">> \o padStart(NaNString, 3)
    ELSE LET positive == IF t.n < 0 THEN -t.n ELSE t.n
         IN  padStart(IntToString(positive \div 3600000), 2) \o <<":">>
                 \o padStart(IntToString((positive \div 60000) % 60), 2) \o <<":">>
                 \o padStart(IntToString((positive \div 1000) % 60), 2) \o <<",">>
                 \o padStart(IntToString(positive % 1000), 3)

\* formatTimestamp(totalMs): clamps a negative value to 0; NaN fails the test
\* totalMs < 0 and every field is then NaN
formatTimestamp(t) ==
    IF t.nan
    THEN padStart(NaNString, 2) \o <<":">> \o padStart(NaNString, 2) \o <<":">>
             \o padStart(NaNString, 2) \o <<",">> \o padStart(NaNString, 3)
    ELSE LET clamped == IF t.n < 0 THEN 0 ELSE t.n
             ms == JsRem(clamped, 1000)
             totalSeconds == clamped \div 1000
             secs == JsRem(totalSeconds, 60)
             totalMinutes == totalSeconds \div 60
             minutes == JsRem(totalMinutes, 60)
             hours == totalMinutes \div 60
         IN  padStart(IntToString(hours), 2) \o <<":">>
                 \o padStart(IntToString(minutes), 2) \o <<":">>
                 \o padStart(IntToString(secs), 2) \o <<",">>
                 \o padStart(IntToString(ms), 3)

-----------------------------------------------------------------------------
(* SubtitleWriter: the line wrapper *)

\* String.prototype.trim (the white space of the model is ' ' and '\n')
trim(s) ==
    LET inked == {i \in 1..Len(s) : s[i] \notin {" ", "\n"}}
    IN  IF inked = {} THEN <<>>
        ELSE SubSeq(s, CHOOSE i \in inked : \A j \in inked : i <= j,
                       CHOOSE i \in inked : \A j \in inked : j <= i)

\* mutant: a word pushed on its own line also starts the next line
RECURSIVE wrapLoopRepeatWord(_, _, _, _, _)
wrapLoopRepeatWord(words, i, lines, currentLine, maxLen) ==
    IF i > Len(words) THEN [lines |-> lines, currentLine |-> currentLine]
    ELSE LET word == words[i]
         IN  IF Len(trim(currentLine \o <<" ">> \o word)) > maxLen
             THEN IF currentLine # <<>>
                  THEN wrapLoopRepeatWord(words, i + 1, Append(lines, trim(currentLine)),
                                          word, maxLen)
                  ELSE wrapLoopRepeatWord(words, i + 1, Append(lines, word), word, maxLen)
             ELSE wrapLoopRepeatWord(words, i + 1, lines,
                                     IF currentLine # <<>>
                                     THEN currentLine \o <<" ">> \o word
                                     ELSE word,
                                     maxLen)

\* mutant: the width test forgets the blank that joins the word to the line
RECURSIVE wrapLoopNoBlank(_, _, _, _, _)
wrapLoopNoBlank(words, i, lines, currentLine, maxLen) ==
    IF i > Len(words) THEN [lines |-> lines, currentLine |-> currentLine]
    ELSE LET word == words[i]
         IN  IF Len(trim(currentLine \o word)) > maxLen
             THEN IF currentLine # <<>>
                  THEN wrapLoopNoBlank(words, i + 1, Append(lines, trim(currentLine)),
                                       word, maxLen)
                  ELSE wrapLoopNoBlank(words, i + 1, Append(lines, word), <<>>, maxLen)
             ELSE wrapLoopNoBlank(words, i + 1, lines,
                                  IF currentLine # <<>> THEN currentLine \o <<" ">> \o word
                                  ELSE word,
                                  maxLen)

\* the for loop of _splitTextIntoLines from word i on; a string is truthy
\* when it is not empty
RECURSIVE wrapLoop(_, _, _, _, _)
wrapLoop(words, i, lines, currentLine, maxLen) ==
    IF i > Len(words) THEN [lines |-> lines, currentLine |-> currentLine]
    ELSE LET word == words[i]
         IN  IF Len(trim(currentLine \o <<" ">> \o word)) > maxLen
             THEN IF currentLine # <<>>
                  THEN wrapLoop(words, i + 1, Append(lines, trim(currentLine)), word, maxLen)
                  ELSE wrapLoop(words, i + 1, Append(lines, word), <<>>, maxLen)
             ELSE wrapLoop(words, i + 1, lines,
                           IF currentLine # <<>> THEN currentLine \o <<" ">> \o word
                           ELSE word,
                           maxLen)

\* the local lines of _splitTextIntoLines after the loop and the push of the
\* remaining text: the greedy wrapping
greedyLines(txt, maxLen) ==
    LET loop == wrapLoop(split(txt, " "), 1, <<>>, <<>>, maxLen)
    IN  IF loop.currentLine # <<>>
        THEN Append(loop.lines, trim(loop.currentLine))
        ELSE loop.lines

\* mutant: a text of exactly maxLength characters is wrapped too
splitTextIntoLinesStrict(txt, maxLen) ==
    IF Len(txt) < maxLen THEN <<txt>>
    ELSE LET words == split(txt, " ")
             lines == greedyLines(txt, maxLen)
             halfLength == (Len(words) + 1) \div 2
         IN  IF Len(lines) > 2
             THEN <<join(SubSeq(words, 1, halfLength), <<" ">>),
                    join(SubSeq(words, halfLength + 1, Len(words)), <<" ">>)>>
             ELSE lines

\* mutant: the midpoint is floor(wordCount / 2)
splitTextIntoLinesFloorHalf(txt, maxLen) ==
    IF Len(txt) <= maxLen THEN <<txt>>
    ELSE LET words == split(txt, " ")
             lines == greedyLines(txt, maxLen)
             halfLength == Len(words) \div 2
         IN  IF Len(lines) > 2
             THEN <<join(SubSeq(words, 1, halfLength), <<" ">>),
                    join(SubSeq(words, halfLength + 1, Len(words)), <<" ">>)>>
             ELSE lines

\* _splitTextIntoLines(text, maxLength)
splitTextIntoLines(txt, maxLen) ==
    IF Len(txt) <= maxLen THEN <<txt>>
    ELSE LET words == split(txt, " ")
             lines == greedyLines(txt, maxLen)
             halfLength == (Len(words) + 1) \div 2
             firstHalf == join(SubSeq(words, 1, halfLength), <<" ">>)
             secondHalf == join(SubSeq(words, halfLength + 1, Len(words)), <<" ">>)
         IN  IF Len(lines) > 2 THEN <<firstHalf, secondHalf>> ELSE lines

-----------------------------------------------------------------------------
(* SubtitleWriter: the SRT and WebVTT builders *)

NL == <<"\n">>
Arrow == <<" ", "-", "-", ">", " ">>

\* the line width the builders wrap at
WrapWidth == 42

\* mutant: the sequence number is the 0-based index
srtBlockZeroBased(segment, index) ==
    LET startTime == formatSRTTimestamp(segment.start)
        endTime == formatSRTTimestamp(segment.end)
        lines == splitTextIntoLines(segment.text, 42)
    IN  join(<<IntToString(index), startTime \o <<" ", "-", "-", ">", " ">> \o endTime>>
                 \o lines \o << <<>> >>, <<"\n">>)

\* the callback of segments.map in _generateSRT (index is 0-based)
srtBlock(segment, index) ==
    LET sequenceNumber == index + 1
        startTime == formatSRTTimestamp(segment.start)
        endTime == formatSRTTimestamp(segment.end)
        lines == splitTextIntoLines(segment.text, WrapWidth)
    IN  join(<<IntToString(sequenceNumber), startTime \o Arrow \o endTime>>
                 \o lines \o << <<>> >>, NL)

\* the callback of segments.map in _generateWebVTT
vttCue(segment, index) ==
    LET sequenceNumber == index + 1
        startTime == formatVTTTimestamp(segment.start)
        endTime == formatVTTTimestamp(segment.end)
        lines == splitTextIntoLines(segment.text, WrapWidth)
    IN  join(<<IntToString(sequenceNumber), startTime \o Arrow \o endTime>>
                 \o lines \o << <<>> >>, NL)

srtBlocksOf(segs) == [i \in 1..Len(segs) |-> srtBlock(segs[i], i - 1)]

vttCuesOf(segs) == [i \in 1..Len(segs) |-> vttCue(segs[i], i - 1)]

\* mutant: a newline is appended after the joined blocks
generateSRTTrailingNewline(segs) == join(srtBlocksOf(segs), NL) \o NL

generateSRT(segs) == join(srtBlocksOf(segs), NL)

vttHeader == <<"W", "E", "B", "V", "T", "T", "\n", "\n">>

generateWebVTT(segs) == vttHeader \o join(vttCuesOf(segs), NL)

-----------------------------------------------------------------------------
(* shift-timing: shiftSubtitles *)

\* String.prototype.includes
includes(s, part) ==
    \E i \in 1..(Len(s) - Len(part) + 1) : SubSeq(s, i, i + Len(part) - 1) = part

\* the body of the for loop of shiftSubtitles for one line: the line pushed,
\* or a throw when parseTimestamp is handed undefined
shiftLine(line, offsetMs) ==
    IF includes(line, <<"-", "-", ">">>)
    THEN LET tokens == split(line, " ")
             start == elementAt(tokens, 1)
             end == elementAt(tokens, 3)
             startMs == parseTimestamp(start)
             endMs == parseTimestamp(end)
         IN  IF startMs.threw \/ endMs.threw THEN Thrown
             ELSE Returned(formatTimestamp(NumAdd(startMs.value, offsetMs))
                               \o Arrow
                               \o formatTimestamp(NumAdd(endMs.value, offsetMs)))
    ELSE Returned(line)

\* shiftSubtitles(content, offsetMs)
shiftSubtitles(cont, offsetMs) ==
    LET lines == split(cont, "\n")
        shiftedLines == [i \in 1..Len(lines) |-> shiftLine(lines[i], offsetMs)]
    IN  IF \E i \in 1..Len(lines) : shiftedLines[i].threw THEN Thrown
        ELSE Returned(join([i \in 1..Len(lines) |-> shiftedLines[i].value], NL))

\* mutant: the product is cut to a whole number instead of rounded
offsetMsOfFloor(offSeconds) == Num(offSeconds.n \div TicksPerMs)

\* Math.round(offsetSeconds * 1000): the nearest integer, a half rounded up
offsetMsOf(offSeconds) == Num((2 * offSeconds.n + TicksPerMs) \div (2 * TicksPerMs))

-----------------------------------------------------------------------------
(* Translator: the answer of the translation service parsed into segments *)

\* null, and a number where null may stand
Null == [null |-> TRUE, n |-> 0]
Number(n) == [null |-> FALSE, n |-> n]

\* line.match(/^\[(\d+)\]\s*(.+)$/) on a line without line break: '[', one
\* or more digits, ']' and at least one more character; index is
\* parseInt(match[1]) and text is match[2].trim()
matchLine(line) ==
    LET closing == {i \in 1..Len(line) : line[i] = "]"}
        p == IF closing = {} THEN 0 ELSE CHOOSE i \in closing : \A j \in closing : i <= j
    IN  IF /\ p >= 3
           /\ line[1] = "["
           /\ AllDigits(SubSeq(line, 2, p - 1))
           /\ p < Len(line)
        THEN [matched |-> TRUE, index |-> DigitsToNat(SubSeq(line, 2, p - 1)),
              text |-> trim(SubSeq(line, p + 1, Len(line)))]
        ELSE [matched |-> FALSE, index |-> 0, text |-> <<>>]

\* the object pushed for segments[index]: its id, start and end, the
\* translated text, tokens || [] and confidence || null
translatedSegment(segment, txt) ==
    [id |-> segment.id, start |-> segment.start, end |-> segment.end, text |-> txt,
     tokens |-> IF "tokens" \in DOMAIN segment THEN segment.tokens ELSE <<>>,
     confidence |-> IF "confidence" \in DOMAIN segment /\ ~segment.confidence.null
                       /\ segment.confidence.n # 0
                    THEN segment.confidence ELSE Null]

\* the for loop over translatedLines from line i on: a matching line whose
\* index is one of segments pushes a translated segment
RECURSIVE translateLoop(_, _, _, _)
translateLoop(segs, translatedLines, i, pushed) ==
    IF i > Len(translatedLines) THEN pushed
    ELSE LET match == matchLine(translatedLines[i])
         IN  IF match.matched /\ match.index < Len(segs)
             THEN translateLoop(segs, translatedLines, i + 1,
                                Append(pushed,
                                       translatedSegment(segs[match.index + 1], match.text)))
             ELSE translateLoop(segs, translatedLines, i + 1, pushed)

\* translatedText.split('\n').filter(line => line.trim())
translatedLinesOf(messageContent) ==
    SelectSeq(split(trim(messageContent), "\n"), LAMBDA line : trim(line) # <<>>)

\* _translateAllSegments after the completion arrived:
\* the segments pushed, or when their number is not that of segments, for
\* each position the pushed segment at that position or else a copy of the
\* original
translateAllSegments(segs, messageContent) ==
    LET pushed == translateLoop(segs, translatedLinesOf(messageContent), 1, <<>>)
    IN  IF Len(pushed) # Len(segs)
        THEN [i \in 1..Len(segs) |-> IF i <= Len(pushed) THEN pushed[i] ELSE segs[i]]
        ELSE pushed

-----------------------------------------------------------------------------
(* SubtitleGenerator: the decisions of generateSubtitles *)

\* String.prototype.toLowerCase on the language codes of the model
toLowerCase(code) ==
    CASE code = "EN" -> "en"
      [] code = "ENG" -> "eng"
      [] OTHER -> code

\* Transcriber._convertToWhisperLanguageCode: a 3-letter code of the table is
\* mapped to its 2-letter code, another code is kept when it has 2 letters
convertToWhisperLanguageCode(langCode) ==
    LET normalized == toLowerCase(langCode)
    IN  CASE normalized = "eng" -> "en"
          [] normalized = "jpn" -> "ja"
          [] normalized = "spa" -> "es"
          [] normalized = "fra" -> "fr"
          [] normalized = "deu" -> "de"
          [] normalized = "ita" -> "it"
          [] normalized = "por" -> "pt"
          [] normalized = "zho" -> "zh"
          [] normalized = "kor" -> "ko"
          [] normalized = "rus" -> "ru"
          [] normalized = "ara" -> "ar"
          [] normalized \in {"en", "ja", "es", "fr", "de", "it", "pt", "zh", "ko", "ru", "ar"}
                -> normalized
          [] OTHER -> "undefined"

\* targetLanguages: languages when it has elements, else [language] when a
\* language is given, else null (no element)
targetLanguagesOf(langs, lang) ==
    IF Len(langs) > 0 THEN langs
    ELSE IF lang # "" THEN <<lang>>
    ELSE <<>>

\* mutant: autoConfirm takes the first track whatever track is specified
selectTrackAutoFirst(tracks, number, auto) ==
    IF auto THEN Returned(tracks[1])
    ELSE IF ~number.null
    THEN LET found == {i \in 1..Len(tracks) : tracks[i].index = number.n}
         IN  IF found = {} THEN Thrown
             ELSE Returned(tracks[CHOOSE i \in found : \A j \in found : i <= j])
    ELSE IF Len(tracks) = 1 THEN Returned(tracks[1])
    ELSE NotCalled

\* Step 2 without the prompt: the track with the specified index or an Error
\* when there is none; the first track when there is one track only or with
\* autoConfirm; otherwise no track yet, the user is asked
selectTrack(tracks, number, auto) ==
    IF ~number.null
    THEN LET found == {i \in 1..Len(tracks) : tracks[i].index = number.n}
         IN  IF found = {} THEN Thrown
             ELSE Returned(tracks[CHOOSE i \in found : \A j \in found : i <= j])
    ELSE IF Len(tracks) = 1 \/ auto THEN Returned(tracks[1])
    ELSE NotCalled

\* transcriptionLanguage = language || selectedTrack.language ("" stands for
\* null and undefined, falsy like them)
transcriptionLanguageOf(lang, track) == IF lang # "" THEN lang ELSE track.language

\* isOriginalLanguage
isOriginalLanguage(targetLang, transcriptionLanguage) ==
    toLowerCase(targetLang) = toLowerCase(transcriptionLanguage)

\* a path is the name and the extension of the file; langOutputPath is
\* '<name>.<targetLang>.srt'
OutputPath == <<"video", ".srt">>
langOutputPath(outputPath, targetLang) == <<outputPath[1], ".", targetLang, ".srt">>

\* the path of the temporary audio file of a track
tmpAudioPath(trackIndex) == <<"video_track", trackIndex, ".mp3">>

\* the iteration of the for loop over targetLanguages at position at, up to
\* its first await: a writeSubtitles call for the original language, a
\* translateSegments call for another one; past the last language, the
\* fs.remove call
nextTarget(at, targetLanguages, transcriptionLanguage, segs) ==
    IF at > Len(targetLanguages)
    THEN [pc |-> "removing", segmentsToWrite |-> <<>>, call |-> <<"remove">>]
    ELSE IF isOriginalLanguage(targetLanguages[at], transcriptionLanguage)
    THEN [pc |-> "writing", segmentsToWrite |-> segs,
          call |-> <<"write", langOutputPath(OutputPath, targetLanguages[at])>>]
    ELSE [pc |-> "translating", segmentsToWrite |-> <<>>,
          call |-> <<"translate", targetLanguages[at]>>]

-----------------------------------------------------------------------------
(* Inputs of the line wrapper and of the builders *)

Rep(c, n) == [i \in 1..n |-> c]

\* every text of at most MaxTextLen characters over two letters and the blank
SeqsUpTo(S, n) == UNION { [1..k -> S] : k \in 0..n }

WrapTexts == SeqsUpTo({"a", "b", " "}, MaxTextLen)

HelloWorld == <<"H", "e", "l", "l", "o", " ", "w", "o", "r", "l", "d">>

HiThere == <<"H", "i", " ", "t", "h", "e", "r", "e">>
LongWord == Rep("S", 34)

\* the calls of the line wrapper: every small text at every small width, and
\* 'Hi there' at 42, one 34-character word at 10, alone and before two
\* short words
WrapCalls ==
    (WrapTexts \X (1..MaxWidth))
        \cup {<<HiThere, 42>>, <<LongWord, 10>>, <<LongWord \o <<" ">> \o HiThere, 10>>}

\* texts of segments: short, with a comma, empty, two greedy lines, three
\* greedy lines (midpoint fallback), blanks only
CommaText == <<"a", ",", "b">>
TwoLineText == Rep("a", 30) \o <<" ">> \o Rep("b", 30)
ThreeLineText == Rep("a", 30) \o <<" ">> \o Rep("b", 30) \o <<" ">> \o Rep("c", 30)
BlankText == Rep(" ", 43)

Segment(id, start, end, txt) ==
    [id |-> id, start |-> start * TicksPerMs, end |-> end * TicksPerMs, text |-> txt]

\* segments as the transcriber hands them over: times in milliseconds
\* 1.0-4.0, an overlapping 2.5-3725.005 and a negative start; id fields that
\* are not positions
Segments ==
    { Segment(7, 1000, 4000, HelloWorld),
      Segment(0, 2500, 3725005, HelloWorld),
      Segment(0, 1000, 4000, CommaText),
      Segment(7, 2500, 3725005, <<>>),
      Segment(0, -5000, 1000, TwoLineText),
      Segment(7, 2500, 3725005, TwoLineText),
      Segment(0, 1000, 4000, ThreeLineText),
      Segment(7, 1000, 4000, BlankText) }

-----------------------------------------------------------------------------
(* Initial values of the parts a specification does not exercise *)

CodecIdle ==
    /\ seconds = 0
    /\ srtStamp = <<>>
    /\ vttStamp = <<>>
    /\ timestamp = <<>>
    /\ timestampFrom = "none"
    /\ parsedMs = NotCalled
    /\ totalMs = NaN
    /\ stamp = <<>>

WrapIdle ==
    /\ text = <<>>
    /\ maxLength = WrapWidth
    /\ textLines = NotCalled

WriterIdle ==
    /\ segments = <<>>
    /\ srtBlocks = <<>>
    /\ srtContent = NotCalled
    /\ vttCues = <<>>
    /\ vttContent = NotCalled

ShiftIdle ==
    /\ pc = "off"
    /\ inputExists = FALSE
    /\ inputIsSrt = FALSE
    /\ offsetSeconds = NaN
    /\ inputContent = <<>>
    /\ content = <<>>
    /\ shifted = NotCalled
    /\ outputFile = NotCalled
    /\ exitCode = -1
    /\ firstRun = NotCalled

TranslateIdle ==
    /\ translatePc = "off"
    /\ sourceSegments = <<>>
    /\ completion = NotCalled
    /\ translatedSegments = NotCalled

GenerateIdle ==
    /\ generatePc = "off"
    /\ language = ""
    /\ languages = <<>>
    /\ trackNumber = Null
    /\ autoConfirm = FALSE
    /\ audioTracks = <<>>
    /\ selectedTrack = NotCalled
    /\ audioPath = NotCalled
    /\ tmpFileDir = {}
    /\ transcription = NotCalled
    /\ targetAt = 0
    /\ segmentsToWrite = <<>>
    /\ outputFiles = <<>>
    /\ events = <<>>

BatchIdle ==
    /\ batchPc = "off"
    /\ videoFiles = <<>>
    /\ extractTrack = Num(0)
    /\ force = FALSE
    /\ mp3Files = {}
    /\ stats = [total |-> 0, extracted |-> 0, skipped |-> 0, failed |-> 0]
    /\ videoAt = 0
    /\ batchLog = <<>>

PipelineIdle ==
    /\ pipePc = "off"
    /\ inputFile = <<>>
    /\ skipSync = FALSE
    /\ pipeLanguage = ""
    /\ pipeFiles = {}
    /\ pipeLog = <<>>
    /\ exitStatus = Null

-----------------------------------------------------------------------------
(* The line wrapper: one call on one text *)

WrapInit ==
    /\ \E call \in WrapCalls : text = call[1] /\ maxLength = call[2]
    /\ textLines = NotCalled
    /\ CodecIdle
    /\ WriterIdle
    /\ ShiftIdle
    /\ TranslateIdle
    /\ GenerateIdle
    /\ BatchIdle
    /\ PipelineIdle

CallSplitTextIntoLines ==
    /\ ~textLines.called
    /\ textLines' = Returned(splitTextIntoLines(text, maxLength))
    /\ UNCHANGED <<text, maxLength, codecVars, writerVars, shiftVars, translateVars,
                   generateVars,
                   batchVars,
                   pipelineVars>>

WrapNext == CallSplitTextIntoLines

SpecWrap == WrapInit /\ [][WrapNext]_vars

-----------------------------------------------------------------------------
(* The writer: a transcription written as SRT and as WebVTT *)

WriterInit ==
    /\ segments \in SeqsUpTo(Segments, MaxSegments)
    /\ srtBlocks = <<>>
    /\ srtContent = NotCalled
    /\ vttCues = <<>>
    /\ vttContent = NotCalled
    /\ CodecIdle
    /\ WrapIdle
    /\ ShiftIdle
    /\ TranslateIdle
    /\ GenerateIdle
    /\ BatchIdle
    /\ PipelineIdle

\* writeSubtitles(outputPath, transcription)
WriteSubtitles ==
    /\ ~srtContent.called
    /\ srtBlocks' = srtBlocksOf(segments)
    /\ srtContent' = Returned(generateSRT(segments))
    /\ UNCHANGED <<segments, vttCues, vttContent, codecVars, wrapVars, shiftVars, translateVars,
                   generateVars,
                   batchVars,
                   pipelineVars>>

\* writeWebVTT(outputPath, transcription)
WriteWebVTT ==
    /\ ~vttContent.called
    /\ vttCues' = vttCuesOf(segments)
    /\ vttContent' = Returned(generateWebVTT(segments))
    /\ UNCHANGED <<segments, srtBlocks, srtContent, codecVars, wrapVars, shiftVars, translateVars,
                   generateVars,
                   batchVars,
                   pipelineVars>>

WriterNext == WriteSubtitles \/ WriteWebVTT

SpecWriter == WriterInit /\ [][WriterNext]_vars

-----------------------------------------------------------------------------
(* Inputs of the codec *)

HourSamples == {0, 1, 10, 100}
MinuteSamples == {0, 2, 59}
SecondSamples == {0, 5, 59}
MilliSamples == {0, 5, 999}

\* times in ticks: every combination of the sampled fields, with every
\* sub-millisecond fraction, and a few negative times
NonNegativeTimes ==
    { (((h * 60 + m) * 60 + s) * 1000 + ms) * TicksPerMs + sub :
        h \in HourSamples, m \in MinuteSamples, s \in SecondSamples,
        ms \in MilliSamples, sub \in 0..(TicksPerMs - 1) }

NegativeTimes == { -5000 * TicksPerMs, -1, -(3725005 * TicksPerMs) }

TimeInputs == NonNegativeTimes \cup NegativeTimes

\* texts handed to parseTimestamp that are not the output of a formatter
RawTimestamps ==
    { <<"b", "a", "d">>,
      <<"0", "0", ":", "0", "0", ":", "0", "1">>,
      <<"0", "0", ":", "0", "1", ",", "0", "0", "0">>,
      <<"0", "0", ":", "0", "0", ":", "0", "x", ",", "0", "0", "0">>,
      <<"1", ":", "2", ":", "3", ",", "4">>,
      <<":", ":", ",">>,
      <<>>,
      Undefined }

\* offsets in milliseconds added between parse and format
OffsetSamples == {0, 3000, -5000, 1}

-----------------------------------------------------------------------------
(* The codec: one timestamp written by the writer, read back, shifted and   *)
(* read again                                                               *)

CodecInit ==
    /\ seconds \in TimeInputs
    /\ srtStamp = <<>>
    /\ vttStamp = <<>>
    /\ timestamp = <<>>
    /\ timestampFrom = "none"
    /\ parsedMs = NotCalled
    /\ totalMs = NaN
    /\ stamp = <<>>
    /\ WrapIdle
    /\ WriterIdle
    /\ ShiftIdle
    /\ TranslateIdle
    /\ GenerateIdle
    /\ BatchIdle
    /\ PipelineIdle

CallFormatSRT ==
    /\ srtStamp = <<>>
    /\ srtStamp' = formatSRTTimestamp(seconds)
    /\ UNCHANGED <<seconds, vttStamp, timestamp, timestampFrom, parsedMs, totalMs, stamp,
                   wrapVars, writerVars, shiftVars, translateVars,
                   generateVars,
                   batchVars,
                   pipelineVars>>

CallFormatVTT ==
    /\ vttStamp = <<>>
    /\ vttStamp' = formatVTTTimestamp(seconds)
    /\ UNCHANGED <<seconds, srtStamp, timestamp, timestampFrom, parsedMs, totalMs, stamp,
                   wrapVars, writerVars, shiftVars, translateVars,
                   generateVars,
                   batchVars,
                   pipelineVars>>

ParseOf(ts, from) ==
    /\ timestamp' = ts
    /\ timestampFrom' = from
    /\ parsedMs' = parseTimestamp(ts)
    /\ UNCHANGED <<seconds, srtStamp, vttStamp, totalMs, stamp, wrapVars, writerVars, shiftVars, translateVars,
                   generateVars,
                   batchVars,
                   pipelineVars>>

CallParseSRT == timestampFrom = "none" /\ srtStamp # <<>> /\ ParseOf(srtStamp, "srt")

CallParseVTT == timestampFrom = "none" /\ vttStamp # <<>> /\ ParseOf(vttStamp, "vtt")

CallParseRaw == timestampFrom = "none" /\ \E ts \in RawTimestamps : ParseOf(ts, "raw")

CallParseShifted ==
    timestampFrom \in {"srt", "vtt", "raw"} /\ stamp # <<>> /\ ParseOf(stamp, "shifted")

CallFormatTimestamp ==
    /\ timestampFrom \in {"srt", "vtt", "raw"}
    /\ ~parsedMs.threw
    /\ stamp = <<>>
    /\ \E offsetMs \in OffsetSamples :
         /\ totalMs' = NumAdd(parsedMs.value, Num(offsetMs))
         /\ stamp' = formatTimestamp(totalMs')
    /\ UNCHANGED <<seconds, srtStamp, vttStamp, timestamp, timestampFrom, parsedMs,
                   wrapVars, writerVars, shiftVars, translateVars,
                   generateVars,
                   batchVars,
                   pipelineVars>>

CodecNext ==
    \/ CallFormatSRT
    \/ CallFormatVTT
    \/ CallParseSRT
    \/ CallParseVTT
    \/ CallParseRaw
    \/ CallParseShifted
    \/ CallFormatTimestamp

SpecCodec == CodecInit /\ [][CodecNext]_vars

-----------------------------------------------------------------------------
(* The shift-timing command: main() from the arguments to the exit *)

Str_1 == <<"1">>
Hello == <<"H", "e", "l", "l", "o">>
Canonical ==
    <<"0", "0", ":", "0", "0", ":", "0", "1", ",", "0", "0", "0">> \o Arrow
        \o <<"0", "0", ":", "0", "0", ":", "0", "4", ",", "0", "0", "0">>
LongCanonical ==
    <<"1", "0", "0", ":", "0", "2", ":", "0", "5", ",", "0", "0", "5">> \o Arrow
        \o <<"1", "0", "0", ":", "5", "9", ":", "5", "9", ",", "9", "9", "9">>
BadEnd ==
    <<"0", "0", ":", "0", "0", ":", "0", "1", ",", "0", "0", "0">> \o Arrow
        \o <<"b", "a", "d", "-", "t", "i", "m", "e", "s", "t", "a", "m", "p">>
MissingEnd ==
    <<"0", "0", ":", "0", "0", ":", "0", "1", ",", "0", "0", "0", " ", "-", "-", ">">>
TightArrow == <<"a", "-", "-", ">", "b">>
LooseArrow == <<"a", " ", "-", "-", ">", "b", " ", "c">>

\* the lines a track is made of: index, caption text, blank separator,
\* canonical timing lines, a timing line with a token that is no timestamp,
\* one without its end, and caption texts with an arrow
TrackLines ==
    {Str_1, Hello, <<>>, Canonical, LongCanonical, BadEnd, MissingEnd, TightArrow,
     LooseArrow}

Tracks == { join(ls, NL) : ls \in SeqsUpTo(TrackLines, MaxTrackLines) }

\* offsets given on the command line, in ticks: 0, +3 s, -3 s, -5 s, plus and
\* minus one tick, and an argument that is no number
OffsetArguments ==
    {Num(0), Num(3000 * TicksPerMs), Num(-3000 * TicksPerMs), Num(-5000 * TicksPerMs),
     Num(1), Num(-1), NaN}

ShiftInit ==
    /\ pc = "start"
    /\ inputExists \in BOOLEAN
    /\ inputIsSrt \in BOOLEAN
    /\ offsetSeconds \in OffsetArguments
    /\ inputContent \in Tracks
    /\ content = <<>>
    /\ shifted = NotCalled
    /\ outputFile = NotCalled
    /\ exitCode = -1
    /\ firstRun = NotCalled
    /\ CodecIdle
    /\ WrapIdle
    /\ WriterIdle
    /\ TranslateIdle
    /\ GenerateIdle
    /\ BatchIdle
    /\ PipelineIdle

\* main() up to the read: the three checks, each ending the process with
\* status 1 when it fails
Validate ==
    /\ pc = "start"
    /\ IF inputExists /\ inputIsSrt /\ ~offsetSeconds.nan
       THEN pc' = "validated" /\ exitCode' = exitCode
       ELSE pc' = "exited" /\ exitCode' = 1
    /\ UNCHANGED <<inputExists, inputIsSrt, offsetSeconds, inputContent, content,
                   shifted, outputFile, firstRun, codecVars, wrapVars, writerVars,
                   translateVars,
                   generateVars,
                   batchVars,
                   pipelineVars>>

\* content = await fs.readFile(inputFile, 'utf8')
ReadFile ==
    /\ pc = "validated"
    /\ content' = inputContent
    /\ pc' = "read"
    /\ UNCHANGED <<inputExists, inputIsSrt, offsetSeconds, inputContent, shifted,
                   outputFile, exitCode, firstRun, codecVars, wrapVars, writerVars,
                   translateVars,
                   generateVars,
                   batchVars,
                   pipelineVars>>

\* shifted = shiftSubtitles(content, offsetMs); a throw is caught by main,
\* which ends the process with status 1
Shift ==
    /\ pc = "read"
    /\ shifted' = shiftSubtitles(content, offsetMsOf(offsetSeconds))
    /\ IF shifted'.threw
       THEN pc' = "exited" /\ exitCode' = 1
       ELSE pc' = "shifted" /\ exitCode' = exitCode
    /\ UNCHANGED <<inputExists, inputIsSrt, offsetSeconds, inputContent, content,
                   outputFile, firstRun, codecVars, wrapVars, writerVars,
                   translateVars,
                   generateVars,
                   batchVars,
                   pipelineVars>>

\* await fs.writeFile(outputPath, shifted, 'utf8'), then main returns
WriteFile ==
    /\ pc = "shifted"
    /\ outputFile' = Returned(shifted.value)
    /\ pc' = "done"
    /\ exitCode' = 0
    /\ UNCHANGED <<inputExists, inputIsSrt, offsetSeconds, inputContent, content,
                   shifted, firstRun, codecVars, wrapVars, writerVars,
                   translateVars,
                   generateVars,
                   batchVars,
                   pipelineVars>>

\* the command run a second time, on the file the first run generated (its
\* default name ends with .srt) and with any offset
Rerun ==
    /\ pc = "done"
    /\ ~firstRun.called
    /\ firstRun' = Returned([content |-> content, offsetSeconds |-> offsetSeconds,
                             output |-> outputFile.value])
    /\ inputContent' = outputFile.value
    /\ inputExists' = TRUE
    /\ inputIsSrt' = TRUE
    /\ offsetSeconds' \in OffsetArguments
    /\ content' = <<>>
    /\ shifted' = NotCalled
    /\ outputFile' = NotCalled
    /\ exitCode' = -1
    /\ pc' = "start"
    /\ UNCHANGED <<codecVars, wrapVars, writerVars,
                   translateVars,
                   generateVars,
                   batchVars,
                   pipelineVars>>

ShiftNext == Validate \/ ReadFile \/ Shift \/ WriteFile \/ Rerun

SpecShift == ShiftInit /\ [][ShiftNext]_vars

-----------------------------------------------------------------------------
(* The translator: one translateSegments call *)

\* segments as Transcriber hands them over (id = index + 1, seconds in
\* ticks), and the single segment of its fallback, without tokens and
\* confidence
FirstSegment ==
    [id |-> 1, start |-> 0, end |-> 2000 * TicksPerMs, text |-> <<"H", "i">>,
     tokens |-> <<>>, confidence |-> Null]
SecondSegment ==
    [id |-> 2, start |-> 2000 * TicksPerMs, end |-> 4500 * TicksPerMs,
     text |-> <<"Y", "o">>, tokens |-> <<7>>, confidence |-> Number(-1)]
WholeSegment ==
    [id |-> 1, start |-> 0, end |-> 0, text |-> <<"O", "k">>]

SourceSegments == {FirstSegment, SecondSegment, WholeSegment}

\* lines the service may answer with: translations of segments 0, 1 and 2, a
\* prefix without text, a blank line, a remark, a translation without blank
\* after the prefix and with one at its end
ResponseLines ==
    { <<"[", "0", "]", " ", "A">>,
      <<"[", "1", "]", " ", "B">>,
      <<"[", "2", "]", " ", "C">>,
      <<"[", "0", "]">>,
      <<>>,
      <<"o", "k">>,
      <<"[", "1", "]", "D", " ">> }

Responses == { join(ls, NL) : ls \in SeqsUpTo(ResponseLines, MaxResponseLines) }

TranslateInit ==
    /\ translatePc = "start"
    /\ sourceSegments \in SeqsUpTo(SourceSegments, MaxSegments)
    /\ completion = NotCalled
    /\ translatedSegments = NotCalled
    /\ CodecIdle
    /\ WrapIdle
    /\ WriterIdle
    /\ ShiftIdle
    /\ GenerateIdle
    /\ BatchIdle
    /\ PipelineIdle

\* translateSegments up to the await of client.chat.completions.create
CreateCompletion ==
    /\ translatePc = "start"
    /\ translatePc' = "awaiting"
    /\ UNCHANGED <<sourceSegments, completion, translatedSegments, codecVars, wrapVars,
                   writerVars, shiftVars,
                   generateVars,
                   batchVars,
                   pipelineVars>>

\* the completion arrives: its content is parsed and translateSegments
\* returns
CompletionResolved ==
    /\ translatePc = "awaiting"
    /\ \E messageContent \in Responses :
          /\ completion' = Returned(messageContent)
          /\ translatedSegments' =
                Returned(translateAllSegments(sourceSegments, messageContent))
    /\ translatePc' = "returned"
    /\ UNCHANGED <<sourceSegments, codecVars, wrapVars, writerVars, shiftVars,
                   generateVars,
                   batchVars,
                   pipelineVars>>

\* the request fails: the catch block throws an Error, and so does
\* translateSegments
CompletionRejected ==
    /\ translatePc = "awaiting"
    /\ completion' = Thrown
    /\ translatedSegments' = Thrown
    /\ translatePc' = "failed"
    /\ UNCHANGED <<sourceSegments, codecVars, wrapVars, writerVars, shiftVars,
                   generateVars,
                   batchVars,
                   pipelineVars>>

TranslateNext == CreateCompletion \/ CompletionResolved \/ CompletionRejected

SpecTranslate == TranslateInit /\ [][TranslateNext]_vars

-----------------------------------------------------------------------------
(* The generator: one generateSubtitles call *)

AudioTrack(index, lang) == [index |-> index, language |-> lang]

\* what the analysis may find: no audio track, one track in English or
\* without language, two tracks
AudioTrackLists ==
    { <<>>,
      <<AudioTrack(0, "eng")>>,
      <<AudioTrack(0, "")>>,
      <<AudioTrack(0, "jpn"), AudioTrack(1, "eng")>> }

\* options.languages: not given, the track's language in its 2-letter form,
\* with or without another language, in either order and case
LanguageLists ==
    { <<>>, <<"en">>, <<"es", "EN">>, <<"en", "es">>, <<"es", "fr">> }

\* options.trackNumber: not given, the second track, a track no video has
TrackNumbers == {Null, Number(1), Number(2)}

\* the segments of a transcription
Transcriptions == { <<FirstSegment, SecondSegment>>, <<WholeSegment>> }

\* answers of the translation service: complete and in order, out of order,
\* the first line missing
GeneratorResponses ==
    { join(<< <<"[", "0", "]", " ", "A">>, <<"[", "1", "]", " ", "B">> >>, NL),
      join(<< <<"[", "1", "]", " ", "B">>, <<"[", "0", "]", " ", "A">> >>, NL),
      <<"[", "1", "]", " ", "B">> }

targetLanguages == targetLanguagesOf(languages, language)

transcriptionLanguage == transcriptionLanguageOf(language, selectedTrack.value)

GenerateInit ==
    /\ generatePc = "start"
    /\ language \in {"", "en"}
    /\ languages \in LanguageLists
    /\ trackNumber \in TrackNumbers
    /\ autoConfirm \in BOOLEAN
    /\ audioTracks = <<>>
    /\ selectedTrack = NotCalled
    /\ audioPath = NotCalled
    /\ tmpFileDir = {}
    /\ transcription = NotCalled
    /\ targetAt = 0
    /\ segmentsToWrite = <<>>
    /\ outputFiles = <<>>
    /\ events = <<>>
    /\ CodecIdle
    /\ WrapIdle
    /\ WriterIdle
    /\ ShiftIdle
    /\ TranslateIdle
    /\ BatchIdle
    /\ PipelineIdle

\* generateSubtitles up to the await of audioAnalyzer.analyzeVideo
AnalyzeVideo ==
    /\ generatePc = "start"
    /\ generatePc' = "analyzing"
    /\ events' = Append(events, <<"analyze">>)
    /\ UNCHANGED <<language, languages, trackNumber, autoConfirm, audioTracks,
                   selectedTrack, audioPath, tmpFileDir, transcription, targetAt,
                   segmentsToWrite, outputFiles, codecVars, wrapVars, writerVars,
                   shiftVars, translateVars,
                   batchVars,
                   pipelineVars>>

\* the analysis resolves: no track is an Error; else the track is selected
\* and extractAudio is called, or the user is asked
AnalysisResolved ==
    /\ generatePc = "analyzing"
    /\ \E tracks \in AudioTrackLists :
          /\ audioTracks' = tracks
          /\ IF Len(tracks) = 0
             THEN /\ selectedTrack' = selectedTrack
                  /\ generatePc' = "thrown"
                  /\ events' = events \o << <<"analyzed">>, <<"failed", "selection">> >>
             ELSE LET selection == selectTrack(tracks, trackNumber, autoConfirm)
                  IN  /\ selectedTrack' = selection
                      /\ IF selection.threw
                         THEN /\ generatePc' = "thrown"
                              /\ events' = events \o << <<"analyzed">>,
                                                       <<"failed", "selection">> >>
                         ELSE IF selection.called
                         THEN /\ generatePc' = "extracting"
                              /\ events' = events \o << <<"analyzed">>,
                                                       <<"extract", selection.value.index>> >>
                         ELSE /\ generatePc' = "prompting"
                              /\ events' = events \o << <<"analyzed">>, <<"prompt">> >>
    /\ UNCHANGED <<language, languages, trackNumber, autoConfirm, audioPath, tmpFileDir,
                   transcription, targetAt, segmentsToWrite, outputFiles, codecVars,
                   wrapVars, writerVars, shiftVars, translateVars,
                   batchVars,
                   pipelineVars>>

\* ffprobe fails: analyzeVideo rejects and the catch block rethrows
AnalysisRejected ==
    /\ generatePc = "analyzing"
    /\ generatePc' = "thrown"
    /\ events' = Append(events, <<"failed", "analysis">>)
    /\ UNCHANGED <<language, languages, trackNumber, autoConfirm, audioTracks,
                   selectedTrack, audioPath, tmpFileDir, transcription, targetAt,
                   segmentsToWrite, outputFiles, codecVars, wrapVars, writerVars,
                   shiftVars, translateVars,
                   batchVars,
                   pipelineVars>>

\* the user picks one of the tracks listed; extractAudio is called
PromptResolved ==
    /\ generatePc = "prompting"
    /\ \E i \in 1..Len(audioTracks) :
          /\ selectedTrack' = Returned(audioTracks[i])
          /\ events' = Append(events, <<"extract", audioTracks[i].index>>)
    /\ generatePc' = "extracting"
    /\ UNCHANGED <<language, languages, trackNumber, autoConfirm, audioTracks, audioPath,
                   tmpFileDir, transcription, targetAt, segmentsToWrite, outputFiles,
                   codecVars, wrapVars, writerVars, shiftVars, translateVars,
                   batchVars,
                   pipelineVars>>

\* the prompt fails
PromptRejected ==
    /\ generatePc = "prompting"
    /\ selectedTrack' = Thrown
    /\ generatePc' = "thrown"
    /\ events' = Append(events, <<"failed", "selection">>)
    /\ UNCHANGED <<language, languages, trackNumber, autoConfirm, audioTracks, audioPath,
                   tmpFileDir, transcription, targetAt, segmentsToWrite, outputFiles,
                   codecVars, wrapVars, writerVars, shiftVars, translateVars,
                   batchVars,
                   pipelineVars>>

\* ffmpeg ends: the temporary file exists, transcribe is called with
\* transcriptionLanguage
ExtractResolved ==
    /\ generatePc = "extracting"
    /\ audioPath' = Returned(tmpAudioPath(selectedTrack.value.index))
    /\ tmpFileDir' = tmpFileDir \cup {tmpAudioPath(selectedTrack.value.index)}
    /\ generatePc' = "transcribing"
    /\ events' = events \o << <<"extracted">>, <<"transcribe", transcriptionLanguage>> >>
    /\ UNCHANGED <<language, languages, trackNumber, autoConfirm, audioTracks,
                   selectedTrack, transcription, targetAt, segmentsToWrite, outputFiles,
                   codecVars, wrapVars, writerVars, shiftVars, translateVars,
                   batchVars,
                   pipelineVars>>

\* mutant: the failure of ffmpeg is ignored and transcribe is called
ExtractRejectedIgnored ==
    /\ generatePc = "extracting"
    /\ audioPath' = Thrown
    /\ generatePc' = "transcribing"
    /\ events' = events \o << <<"failed", "extraction">>,
                             <<"transcribe", transcriptionLanguage>> >>
    /\ UNCHANGED <<language, languages, trackNumber, autoConfirm, audioTracks,
                   selectedTrack, tmpFileDir, transcription, targetAt, segmentsToWrite,
                   outputFiles, codecVars, wrapVars, writerVars, shiftVars,
                   translateVars,
                   batchVars,
                   pipelineVars>>

\* ffmpeg fails: extractAudio rejects
ExtractRejected ==
    /\ generatePc = "extracting"
    /\ audioPath' = Thrown
    /\ generatePc' = "thrown"
    /\ events' = Append(events, <<"failed", "extraction">>)
    /\ UNCHANGED <<language, languages, trackNumber, autoConfirm, audioTracks,
                   selectedTrack, tmpFileDir, transcription, targetAt, segmentsToWrite,
                   outputFiles, codecVars, wrapVars, writerVars, shiftVars,
                   translateVars,
                   batchVars,
                   pipelineVars>>

\* the transcription resolves: with target languages the loop starts, without
\* them writeSubtitles is called for outputPath
TranscribeResolved ==
    /\ generatePc = "transcribing"
    /\ \E segs \in Transcriptions :
          /\ transcription' = Returned(segs)
          /\ IF Len(targetLanguages) > 0
             THEN LET next == nextTarget(1, targetLanguages, transcriptionLanguage, segs)
                  IN  /\ targetAt' = 1
                      /\ generatePc' = next.pc
                      /\ segmentsToWrite' = next.segmentsToWrite
                      /\ events' = events \o << <<"transcribed">>, next.call >>
             ELSE /\ targetAt' = 0
                  /\ generatePc' = "writing"
                  /\ segmentsToWrite' = segs
                  /\ events' = events \o << <<"transcribed">>, <<"write", OutputPath>> >>
    /\ UNCHANGED <<language, languages, trackNumber, autoConfirm, audioTracks,
                   selectedTrack, audioPath, tmpFileDir, outputFiles, codecVars, wrapVars,
                   writerVars, shiftVars, translateVars,
                   batchVars,
                   pipelineVars>>

\* the audio file is too large or the transcription service fails
TranscribeRejected ==
    /\ generatePc = "transcribing"
    /\ transcription' = Thrown
    /\ generatePc' = "thrown"
    /\ events' = Append(events, <<"failed", "transcription">>)
    /\ UNCHANGED <<language, languages, trackNumber, autoConfirm, audioTracks,
                   selectedTrack, audioPath, tmpFileDir, targetAt, segmentsToWrite,
                   outputFiles, codecVars, wrapVars, writerVars, shiftVars,
                   translateVars,
                   batchVars,
                   pipelineVars>>

\* translateSegments resolves with the segments parsed from the service's
\* answer; writeSubtitles is called for langOutputPath
TranslateResolved ==
    /\ generatePc = "translating"
    /\ \E messageContent \in GeneratorResponses :
          segmentsToWrite' = translateAllSegments(transcription.value, messageContent)
    /\ generatePc' = "writing"
    /\ events' = events \o << <<"translated">>,
                             <<"write", langOutputPath(OutputPath,
                                                       targetLanguages[targetAt])>> >>
    /\ UNCHANGED <<language, languages, trackNumber, autoConfirm, audioTracks,
                   selectedTrack, audioPath, tmpFileDir, transcription, targetAt,
                   outputFiles, codecVars, wrapVars, writerVars, shiftVars,
                   translateVars,
                   batchVars,
                   pipelineVars>>

\* translateSegments throws
TranslateRejected ==
    /\ generatePc = "translating"
    /\ generatePc' = "thrown"
    /\ events' = Append(events, <<"failed", "translation">>)
    /\ UNCHANGED <<language, languages, trackNumber, autoConfirm, audioTracks,
                   selectedTrack, audioPath, tmpFileDir, transcription, targetAt,
                   segmentsToWrite, outputFiles, codecVars, wrapVars, writerVars,
                   shiftVars, translateVars,
                   batchVars,
                   pipelineVars>>

\* the path of the writeSubtitles call under way
writingPath ==
    IF Len(targetLanguages) > 0
    THEN langOutputPath(OutputPath, targetLanguages[targetAt])
    ELSE OutputPath

\* writeSubtitles resolves: the file holds the SRT text of the segments; the
\* loop goes on with the next language, or fs.remove is called
WriteResolved ==
    /\ generatePc = "writing"
    /\ outputFiles' = Append(outputFiles,
                             [path |-> writingPath, content |-> generateSRT(segmentsToWrite)])
    /\ LET next == nextTarget(targetAt + 1, targetLanguages, transcriptionLanguage,
                              transcription.value)
       IN  /\ targetAt' = IF Len(targetLanguages) > 0 /\ targetAt < Len(targetLanguages)
                          THEN targetAt + 1 ELSE targetAt
           /\ generatePc' = next.pc
           /\ segmentsToWrite' = next.segmentsToWrite
           /\ events' = events \o << <<"written", writingPath>>, next.call >>
    /\ UNCHANGED <<language, languages, trackNumber, autoConfirm, audioTracks,
                   selectedTrack, audioPath, tmpFileDir, transcription, codecVars,
                   wrapVars, writerVars, shiftVars, translateVars,
                   batchVars,
                   pipelineVars>>

\* writeSubtitles throws
WriteRejected ==
    /\ generatePc = "writing"
    /\ generatePc' = "thrown"
    /\ events' = Append(events, <<"failed", "writing">>)
    /\ UNCHANGED <<language, languages, trackNumber, autoConfirm, audioTracks,
                   selectedTrack, audioPath, tmpFileDir, transcription, targetAt,
                   segmentsToWrite, outputFiles, codecVars, wrapVars, writerVars,
                   shiftVars, translateVars,
                   batchVars,
                   pipelineVars>>

\* fs.remove(audioPath) resolves and generateSubtitles returns
RemoveResolved ==
    /\ generatePc = "removing"
    /\ tmpFileDir' = tmpFileDir \ {audioPath.value}
    /\ generatePc' = "returned"
    /\ events' = Append(events, <<"removed">>)
    /\ UNCHANGED <<language, languages, trackNumber, autoConfirm, audioTracks,
                   selectedTrack, audioPath, transcription, targetAt, segmentsToWrite,
                   outputFiles, codecVars, wrapVars, writerVars, shiftVars,
                   translateVars,
                   batchVars,
                   pipelineVars>>

GenerateNext ==
    \/ AnalyzeVideo \/ AnalysisResolved \/ AnalysisRejected
    \/ PromptResolved \/ PromptRejected
    \/ ExtractResolved \/ ExtractRejected
    \/ TranscribeResolved \/ TranscribeRejected
    \/ TranslateResolved \/ TranslateRejected
    \/ WriteResolved \/ WriteRejected
    \/ RemoveResolved

SpecGenerate == GenerateInit /\ [][GenerateNext]_vars

-----------------------------------------------------------------------------
(* The batch audio extractor: one processDirectory call                    *)
(* A path is a sequence of its parts, the extension last.                  *)

MaxVideos == 3
MaxTracks == 2

NumberString(n) == IF n.nan THEN NaNString ELSE IntToString(n.n)

\* getAudioPath: name.mp3 for track 0, name-track<N>.mp3 otherwise
getAudioPath(videoPath, track) ==
    IF track = Num(0)
    THEN <<videoPath[1], ".mp3">>
    ELSE <<videoPath[1], "-track">> \o NumberString(track) \o <<".mp3">>

\* the track that is extracted once the analysis found `count` tracks:
\* track 0 when the asked one is beyond the last
trackToUse(track, count) ==
    IF ~track.nan /\ track.n >= count THEN Num(0) ELSE track

\* videoInfo.audioTracks[trackNumber] is an element of the array
hasTrack(track, count) == ~track.nan /\ track.n >= 0 /\ track.n < count

\* entry of extractFromVideo up to its first await: with force the existence
\* of the audio file is not looked at
\* a variant that looks at the existence of the audio file even with force
extractFromVideoEntryAlwaysChecks(frc) == "checking"

extractFromVideoEntry(frc) == IF frc THEN "analyzing" ELSE "checking"

VideoNames == {<<"a", ".mkv">>, <<"a", ".mp4">>, <<"b", ".mkv">>}

\* the lists of distinct video files of at most MaxVideos entries
VideoLists ==
    {list \in UNION {[1..n -> VideoNames] : n \in 0..MaxVideos} :
        \A j, k \in 1..Len(list) : j # k => list[j] # list[k]}

TrackOptions == {Num(0), Num(1), NaN}

AudioNames == {getAudioPath(<<"a", ".mkv">>, Num(0)), getAudioPath(<<"b", ".mkv">>, Num(0)),
               getAudioPath(<<"a", ".mkv">>, Num(1))}

BatchInit ==
    /\ batchPc = "scanning"
    /\ videoFiles \in VideoLists
    /\ extractTrack \in TrackOptions
    /\ force \in BOOLEAN
    /\ mp3Files \in SUBSET AudioNames
    /\ stats = [total |-> 0, extracted |-> 0, skipped |-> 0, failed |-> 0]
    /\ videoAt = 0
    /\ batchLog = <<>>
    /\ CodecIdle
    /\ WrapIdle
    /\ WriterIdle
    /\ ShiftIdle
    /\ TranslateIdle
    /\ GenerateIdle
    /\ PipelineIdle

\* the audio path of the video under way
currentAudioPath == getAudioPath(videoFiles[videoAt], extractTrack)

\* extractFromVideo returns after counting the video as `counter`, leaving
\* the audio files `disk`: the loop goes on to the next video, or the summary
\* is printed and processDirectory returns
finishVideo(counter, disk) ==
    /\ stats' = [stats EXCEPT ![counter] = @ + 1]
    /\ mp3Files' = disk
    /\ IF videoAt < Len(videoFiles)
       THEN /\ videoAt' = videoAt + 1
            /\ batchPc' = extractFromVideoEntry(force)
            /\ batchLog' = batchLog \o
                 << <<counter, videoAt>>,
                    <<"enter", videoAt + 1,
                      getAudioPath(videoFiles[videoAt + 1], extractTrack) \in disk>> >>
       ELSE /\ videoAt' = videoAt
            /\ batchPc' = "returned"
            /\ batchLog' = batchLog \o << <<counter, videoAt>>, <<"summary", 0>> >>
    /\ UNCHANGED <<videoFiles, extractTrack, force>>

\* findVideoFiles resolves: nothing found returns at once, otherwise total
\* is set and the loop enters extractFromVideo for the first video
FindResolved ==
    /\ batchPc = "scanning"
    /\ IF Len(videoFiles) = 0
       THEN /\ batchPc' = "returned"
            /\ batchLog' = Append(batchLog, <<"none", 0>>)
            /\ UNCHANGED <<stats, videoAt>>
       ELSE /\ stats' = [stats EXCEPT !.total = Len(videoFiles)]
            /\ videoAt' = 1
            /\ batchPc' = extractFromVideoEntry(force)
            /\ batchLog' = Append(batchLog,
                  <<"enter", 1, getAudioPath(videoFiles[1], extractTrack) \in mp3Files>>)
    /\ UNCHANGED <<videoFiles, extractTrack, force, mp3Files, codecVars, wrapVars,
                   writerVars, shiftVars, translateVars, generateVars, pipelineVars>>

\* findVideoFiles rejects (a directory cannot be read): processDirectory throws
FindRejected ==
    /\ batchPc = "scanning"
    /\ batchPc' = "thrown"
    /\ batchLog' = Append(batchLog, <<"scanFailed", 0>>)
    /\ UNCHANGED <<videoFiles, extractTrack, force, mp3Files, stats, videoAt,
                   codecVars, wrapVars, writerVars, shiftVars, translateVars,
                   generateVars, pipelineVars>>

\* fs.pathExists(audioPath) resolves: an existing audio file is skipped,
\* otherwise the video is analyzed
PathExistsResolved ==
    /\ batchPc = "checking"
    /\ IF currentAudioPath \in mp3Files
       THEN finishVideo("skipped", mp3Files)
       ELSE /\ batchPc' = "analyzing"
            /\ UNCHANGED <<videoFiles, extractTrack, force, mp3Files, stats, videoAt,
                           batchLog>>
    /\ UNCHANGED <<codecVars, wrapVars, writerVars, shiftVars, translateVars,
                   generateVars, pipelineVars>>

\* analyzeVideo resolves: no track counts as failed; a track beyond the last
\* becomes track 0; reading the language of a track that is not in the array
\* throws, which counts as failed; otherwise ffmpeg is run
AnalyzeResolved ==
    /\ batchPc = "analyzing"
    /\ \E count \in 0..MaxTracks :
          IF count = 0 \/ ~hasTrack(trackToUse(extractTrack, count), count)
          THEN finishVideo("failed", mp3Files)
          ELSE /\ batchPc' = "extracting"
               /\ batchLog' = Append(batchLog,
                     <<"ffmpeg", videoAt, trackToUse(extractTrack, count)>>)
               /\ UNCHANGED <<videoFiles, extractTrack, force, mp3Files, stats,
                              videoAt>>
    /\ UNCHANGED <<codecVars, wrapVars, writerVars, shiftVars, translateVars,
                   generateVars, pipelineVars>>

\* analyzeVideo rejects: caught, the video counts as failed
AnalyzeRejected ==
    /\ batchPc = "analyzing"
    /\ finishVideo("failed", mp3Files)
    /\ UNCHANGED <<codecVars, wrapVars, writerVars, shiftVars, translateVars,
                   generateVars, pipelineVars>>

\* ffmpeg ends: the audio file is on the disk, its size is asked for
FfmpegEnded ==
    /\ batchPc = "extracting"
    /\ mp3Files' = mp3Files \cup {currentAudioPath}
    /\ batchPc' = "sizing"
    /\ UNCHANGED <<videoFiles, extractTrack, force, stats, videoAt, batchLog,
                   codecVars, wrapVars, writerVars, shiftVars, translateVars,
                   generateVars, pipelineVars>>

\* ffmpeg reports an error: caught, the video counts as failed; what ffmpeg
\* wrote before the error may be left on the disk
FfmpegFailed ==
    /\ batchPc = "extracting"
    /\ \E disk \in {mp3Files, mp3Files \cup {currentAudioPath}} :
          finishVideo("failed", disk)
    /\ UNCHANGED <<codecVars, wrapVars, writerVars, shiftVars, translateVars,
                   generateVars, pipelineVars>>

\* fs.stat(audioPath) resolves: the video counts as extracted
StatResolved ==
    /\ batchPc = "sizing"
    /\ finishVideo("extracted", mp3Files)
    /\ UNCHANGED <<codecVars, wrapVars, writerVars, shiftVars, translateVars,
                   generateVars, pipelineVars>>

\* fs.stat(audioPath) rejects: caught, the video counts as failed
StatRejected ==
    /\ batchPc = "sizing"
    /\ finishVideo("failed", mp3Files)
    /\ UNCHANGED <<codecVars, wrapVars, writerVars, shiftVars, translateVars,
                   generateVars, pipelineVars>>

BatchNext ==
    \/ FindResolved \/ FindRejected
    \/ PathExistsResolved
    \/ AnalyzeResolved \/ AnalyzeRejected
    \/ FfmpegEnded \/ FfmpegFailed
    \/ StatResolved \/ StatRejected

SpecBatch == BatchInit /\ [][BatchNext]_vars

-----------------------------------------------------------------------------
(* The generate-and-sync pipeline: one run of main                         *)

MaxExitCode == 2

Extensions == {".mkv", ".mp3"}

\* path.extname: the extension of the last part of the path, '' without one
extname(p) == IF Len(p) > 1 /\ p[Len(p)] \in Extensions THEN p[Len(p)] ELSE ""

\* String.prototype.replace(part, ''): the first occurrence is taken out
replaceFirst(p, part) ==
    IF part = "" \/ \A j \in 1..Len(p) : p[j] # part
    THEN p
    ELSE LET at == CHOOSE j \in 1..Len(p) :
                      p[j] = part /\ \A k \in 1..(j - 1) : p[k] # part
         IN  SubSeq(p, 1, at - 1) \o SubSeq(p, at + 1, Len(p))

basePathOf(input) == replaceFirst(input, extname(input))
audioFileOf(input) == basePathOf(input) \o <<".mp3">>
rawSrtPathOf(input) == basePathOf(input) \o <<".srt">>
syncedPathOf(input) == basePathOf(input) \o <<".synced", ".srt">>

\* the temporary file videoProcessor.extractAudio resolves with
tmpOutputPath(input) == <<"tmp/", input[1], "_track0">> \o <<".mp3">>

\* the arguments of the transcription command
transcribeArgs(input, lang) ==
    <<"-i">> \o audioFileOf(input) \o <<"--auto">>
        \o (IF lang # "" THEN <<"--language", lang>> ELSE <<>>)

\* runCommand settles when the child closes: resolved for exit code 0 only
\* mutant: exit code 1 resolves as well
runCommandResolvedUpToOne(code) == code <= 1

runCommandResolved(code) == code = 0

InputFiles == {<<"ep", ".mkv">>, <<"ep">>, <<"ep", ".mp3">>}

ExitCodes == 0..MaxExitCode

PipelineInit ==
    /\ pipePc = "start"
    /\ inputFile \in InputFiles
    /\ skipSync \in BOOLEAN
    /\ pipeLanguage \in {"en", ""}
    /\ pipeFiles \in SUBSET {inputFile, audioFileOf(inputFile), rawSrtPathOf(inputFile)}
    /\ pipeLog = <<>>
    /\ exitStatus = Null
    /\ CodecIdle
    /\ WrapIdle
    /\ WriterIdle
    /\ ShiftIdle
    /\ TranslateIdle
    /\ GenerateIdle
    /\ BatchIdle

\* fs.pathExists(inputFile) resolves: a missing input ends the process with
\* status 1, otherwise the audio file is looked for
InputChecked ==
    /\ pipePc = "start"
    /\ IF inputFile \in pipeFiles
       THEN /\ pipePc' = "checkingAudio"
            /\ pipeLog' = Append(pipeLog, <<"input", TRUE>>)
            /\ exitStatus' = exitStatus
       ELSE /\ pipePc' = "exited"
            /\ pipeLog' = Append(pipeLog, <<"input", FALSE>>)
            /\ exitStatus' = Number(1)
    /\ UNCHANGED <<inputFile, skipSync, pipeLanguage, pipeFiles, codecVars, wrapVars,
                   writerVars, shiftVars, translateVars, generateVars, batchVars>>

\* fs.pathExists(audioFile) resolves: without the audio file step 1 starts
\* with the analysis of the video, with it the transcription is spawned
AudioChecked ==
    /\ pipePc = "checkingAudio"
    /\ LET hasAudio == audioFileOf(inputFile) \in pipeFiles
       IN  IF ~hasAudio
           THEN /\ pipePc' = "analyzing"
                /\ pipeLog' = pipeLog \o << <<"hasAudio", FALSE>>, <<"analyze">> >>
           ELSE /\ pipePc' = "transcribing"
                /\ pipeLog' = pipeLog \o
                     << <<"hasAudio", TRUE>>,
                        <<"spawn", "node", transcribeArgs(inputFile, pipeLanguage)>> >>
    /\ UNCHANGED <<inputFile, skipSync, pipeLanguage, pipeFiles, exitStatus, codecVars,
                   wrapVars, writerVars, shiftVars, translateVars, generateVars,
                   batchVars>>

\* analyzeVideo resolves: extractAudio is called for track 0
VideoAnalyzed ==
    /\ pipePc = "analyzing"
    /\ pipePc' = "extracting"
    /\ pipeLog' = Append(pipeLog, <<"extract", 0>>)
    /\ UNCHANGED <<inputFile, skipSync, pipeLanguage, pipeFiles, exitStatus, codecVars,
                   wrapVars, writerVars, shiftVars, translateVars, generateVars,
                   batchVars>>

\* extractAudio resolves with the temporary file, which is moved next to the
\* video
AudioExtracted ==
    /\ pipePc = "extracting"
    /\ pipePc' = "moving"
    /\ pipeFiles' = pipeFiles \cup {tmpOutputPath(inputFile)}
    /\ pipeLog' = Append(pipeLog, <<"move", audioFileOf(inputFile)>>)
    /\ UNCHANGED <<inputFile, skipSync, pipeLanguage, exitStatus, codecVars, wrapVars,
                   writerVars, shiftVars, translateVars, generateVars, batchVars>>

\* fs.move resolves: the audio file is in place, the transcription is spawned
AudioMoved ==
    /\ pipePc = "moving"
    /\ pipePc' = "transcribing"
    /\ pipeFiles' = (pipeFiles \ {tmpOutputPath(inputFile)}) \cup {audioFileOf(inputFile)}
    /\ pipeLog' = pipeLog \o
          << <<"moved">>, <<"spawn", "node", transcribeArgs(inputFile, pipeLanguage)>> >>
    /\ UNCHANGED <<inputFile, skipSync, pipeLanguage, exitStatus, codecVars, wrapVars,
                   writerVars, shiftVars, translateVars, generateVars, batchVars>>

\* the transcription child closes: code 0 resolves and, unless skipSync,
\* ffsubsync is spawned; with skipSync main ends; another code rejects, which
\* the catch block turns into exit status 1
TranscriptionClosed ==
    /\ pipePc = "transcribing"
    /\ \E code \in ExitCodes :
          IF runCommandResolved(code)
          THEN /\ pipeFiles' = pipeFiles \cup {rawSrtPathOf(inputFile)}
               /\ IF ~skipSync
                  THEN /\ pipePc' = "syncing"
                       /\ pipeLog' = pipeLog \o
                            << <<"closed", "node", code>>, <<"spawn", "ffsubsync">> >>
                       /\ exitStatus' = exitStatus
                  ELSE /\ pipePc' = "exited"
                       /\ pipeLog' = pipeLog \o
                            << <<"closed", "node", code>>, <<"complete">> >>
                       /\ exitStatus' = Number(0)
          ELSE /\ pipeFiles' = pipeFiles
               /\ pipePc' = "exited"
               /\ pipeLog' = pipeLog \o << <<"closed", "node", code>>, <<"failed">> >>
               /\ exitStatus' = Number(1)
    /\ UNCHANGED <<inputFile, skipSync, pipeLanguage, codecVars, wrapVars, writerVars,
                   shiftVars, translateVars, generateVars, batchVars>>

\* the ffsubsync child closes: code 0 resolves and the synced file is moved
\* over the raw one; another code rejects
SyncClosed ==
    /\ pipePc = "syncing"
    /\ \E code \in ExitCodes :
          IF runCommandResolved(code)
          THEN /\ pipeFiles' = pipeFiles \cup {syncedPathOf(inputFile)}
               /\ pipePc' = "replacing"
               /\ pipeLog' = pipeLog \o << <<"closed", "ffsubsync", code>>, <<"replace">> >>
               /\ exitStatus' = exitStatus
          ELSE /\ pipeFiles' = pipeFiles
               /\ pipePc' = "exited"
               /\ pipeLog' = pipeLog \o << <<"closed", "ffsubsync", code>>, <<"failed">> >>
               /\ exitStatus' = Number(1)
    /\ UNCHANGED <<inputFile, skipSync, pipeLanguage, codecVars, wrapVars, writerVars,
                   shiftVars, translateVars, generateVars, batchVars>>

\* a child cannot be spawned ('error'): runCommand rejects
ChildError ==
    /\ pipePc \in {"transcribing", "syncing"}
    /\ pipePc' = "exited"
    /\ pipeLog' = pipeLog \o << <<"error", pipePc>>, <<"failed">> >>
    /\ exitStatus' = Number(1)
    /\ UNCHANGED <<inputFile, skipSync, pipeLanguage, pipeFiles, codecVars, wrapVars,
                   writerVars, shiftVars, translateVars, generateVars, batchVars>>

\* fs.move(syncedPath, rawSrtPath) resolves: the raw file is replaced and
\* main ends
SyncedMoved ==
    /\ pipePc = "replacing"
    /\ pipePc' = "exited"
    /\ pipeFiles' = (pipeFiles \ {syncedPathOf(inputFile)}) \cup {rawSrtPathOf(inputFile)}
    /\ pipeLog' = pipeLog \o << <<"replaced">>, <<"complete">> >>
    /\ exitStatus' = Number(0)
    /\ UNCHANGED <<inputFile, skipSync, pipeLanguage, codecVars, wrapVars, writerVars,
                   shiftVars, translateVars, generateVars, batchVars>>

\* the catch block: the analysis, the extraction or a move rejects
StepRejected ==
    /\ pipePc \in {"analyzing", "extracting", "moving", "replacing"}
    /\ pipePc' = "exited"
    /\ pipeLog' = pipeLog \o << <<"rejected", pipePc>>, <<"failed">> >>
    /\ exitStatus' = Number(1)
    /\ UNCHANGED <<inputFile, skipSync, pipeLanguage, pipeFiles, codecVars, wrapVars,
                   writerVars, shiftVars, translateVars, generateVars, batchVars>>

PipelineNext ==
    \/ InputChecked \/ AudioChecked
    \/ VideoAnalyzed \/ AudioExtracted \/ AudioMoved
    \/ TranscriptionClosed \/ SyncClosed \/ ChildError
    \/ SyncedMoved \/ StepRejected

SpecPipeline == PipelineInit /\ [][PipelineNext]_vars

-----------------------------------------------------------------------------
(* Claims about the codec, checked under SpecCodec *)

\* the value of a run of digits, read independently of the code
RECURSIVE DecimalValue(_)
DecimalValue(s) ==
    IF Len(s) = 0 THEN 0
    ELSE 10 * DecimalValue(SubSeq(s, 1, Len(s) - 1))
           + (CHOOSE v \in 0..9 : DigitChars[v + 1] = s[Len(s)])

\* txt is HH:MM:SS<sep>mmm: two or more hour digits, two minute digits, two
\* second digits, three millisecond digits
HasShape(txt, sep) ==
    LET n == Len(txt)
    IN  /\ n >= 12
        /\ txt[n - 3] = sep
        /\ txt[n - 6] = ":"
        /\ txt[n - 9] = ":"
        /\ \A i \in (1..n) \ {n - 3, n - 6, n - 9} : IsDigit(txt[i])

\* txt is the timestamp of ms milliseconds with separator sep
IsStampOf(txt, sep, ms) ==
    LET n == Len(txt)
    IN  /\ HasShape(txt, sep)
        /\ DecimalValue(SubSeq(txt, n - 2, n)) = ms % 1000
        /\ DecimalValue(SubSeq(txt, n - 5, n - 4)) = (ms \div 1000) % 60
        /\ DecimalValue(SubSeq(txt, n - 8, n - 7)) = (ms \div 60000) % 60
        /\ DecimalValue(SubSeq(txt, 1, n - 10)) = ms \div 3600000
        /\ (n - 10 > 2 => txt[1] # "0")

ZeroSRT == <<"0", "0", ":", "0", "0", ":", "0", "0", ",", "0", "0", "0">>
ZeroVTT == <<"0", "0", ":", "0", "0", ":", "0", "0", ".", "0", "0", "0">>
TenHoursSRT == <<"1", "0", ":", "0", "0", ":", "0", "0", ",", "0", "0", "0">>

C6_NegativeClamped ==
    /\ (seconds < 0 /\ srtStamp # <<>>) => srtStamp = ZeroSRT
    /\ (seconds < 0 /\ vttStamp # <<>>) => vttStamp = ZeroVTT
    /\ (stamp # <<>> /\ ~totalMs.nan /\ totalMs.n < 0) => stamp = ZeroSRT
    /\ \A i \in 1..Len(srtStamp) : srtStamp[i] # "-"
    /\ \A i \in 1..Len(vttStamp) : vttStamp[i] # "-"
    /\ \A i \in 1..Len(stamp) : stamp[i] # "-"

C7_WitnessShifted ==
    timestampFrom = "shifted" /\ ~totalMs.nan /\ totalMs.n >= 360000000

\* C8: parseTimestamp fails with an error, instead of returning a value,
\* whenever its input is not of the shape HH:MM:SS,mmm
C8_MalformedRejected ==
    (parsedMs.called /\ timestamp # Undefined /\ ~HasShape(timestamp, ","))
        => parsedMs.threw

-----------------------------------------------------------------------------
(* Claims about the builders, checked under SpecWriter *)

\* line is the decimal numeral of k, without sign or leading zero
IsNumeral(line, k) ==
    /\ Len(line) >= 1
    /\ \A i \in 1..Len(line) : IsDigit(line[i])
    /\ (Len(line) > 1 => line[1] # "0")
    /\ DecimalValue(line) = k

\* the block is the one of the k-th segment: index line k, then the timing
\* line of that segment, then its text lines, then the empty separator
IsBlockOf(block, k, segment, sep) ==
    LET ls == split(block, "\n")
        startTime == IF sep = "," THEN formatSRTTimestamp(segment.start)
                     ELSE formatVTTTimestamp(segment.start)
        endTime == IF sep = "," THEN formatSRTTimestamp(segment.end)
                   ELSE formatVTTTimestamp(segment.end)
    IN  /\ Len(ls) >= 3
        /\ IsNumeral(ls[1], k)
        /\ ls[2] = startTime \o Arrow \o endTime
        /\ SubSeq(ls, 3, Len(ls) - 1) = splitTextIntoLines(segment.text, WrapWidth)
        /\ ls[Len(ls)] = <<>>

\* C1: both builders emit exactly one block per segment, in input order, and
\* the index line of the k-th block is the decimal number k, whatever the
\* segments' id fields, order or overlap
C1_BlockPerSegment ==
    /\ srtContent.called =>
          /\ Len(srtBlocks) = Len(segments)
          /\ \A k \in 1..Len(segments) :
                IsBlockOf(srtBlocks[k], k, segments[k], ",")
          /\ srtContent.value = join(srtBlocks, NL)
    /\ vttContent.called =>
          /\ Len(vttCues) = Len(segments)
          /\ \A k \in 1..Len(segments) :
                IsBlockOf(vttCues[k], k, segments[k], ".")
          /\ vttContent.value = vttHeader \o join(vttCues, NL)

\* C1 witness: two segments given out of time order, with ids that are not
\* their positions, built in both formats
C1_Witness ==
    /\ srtContent.called /\ vttContent.called
    /\ Len(segments) >= 2
    /\ segments[1].id = 7 /\ segments[2].id = 0
    /\ segments[1].start > segments[2].start

\* the lines of all blocks, one after the other
RECURSIVE Flatten(_)
Flatten(lists) == IF Len(lists) = 0 THEN <<>> ELSE lists[1] \o Flatten(Tail(lists))

HelloWorldSRT ==
    << <<"1">>,
       <<"0", "0", ":", "0", "0", ":", "0", "1", ",", "0", "0", "0">> \o Arrow
           \o <<"0", "0", ":", "0", "0", ":", "0", "4", ",", "0", "0", "0">>,
       HelloWorld,
       <<>> >>

\* C2: the SRT text is the in-order concatenation of its blocks, each block
\* being the index line, the timing line, 1 or 2 text lines and one blank
\* separator line, with no other line; the segment 1.0-4.0 'Hello world'
\* yields the lines '1', '00:00:01,000 --> 00:00:04,000', 'Hello world', ''
C2_SrtLayout ==
    srtContent.called =>
        LET blockLines == [k \in 1..Len(srtBlocks) |-> split(srtBlocks[k], "\n")]
        IN  /\ Len(srtBlocks) = Len(segments)
            /\ srtContent.value = join(Flatten(blockLines), NL)
            /\ \A k \in 1..Len(segments) :
                  /\ IsBlockOf(srtBlocks[k], k, segments[k], ",")
                  /\ Len(blockLines[k]) - 3 \in {1, 2}
            /\ (/\ Len(segments) = 1
                /\ segments[1].start = 1000 * TicksPerMs
                /\ segments[1].end = 4000 * TicksPerMs
                /\ segments[1].text = HelloWorld)
                  => split(srtContent.value, "\n") = HelloWorldSRT

\* every ',' of the text replaced by '.'
CommaToPeriod(line) == [i \in 1..Len(line) |-> IF line[i] = "," THEN "." ELSE line[i]]

\* the block with the commas of its timing line, and only of that line,
\* replaced by periods
WithPeriodTiming(block) ==
    LET ls == split(block, "\n")
    IN  join([i \in 1..Len(ls) |-> IF i = 2 THEN CommaToPeriod(ls[i]) ELSE ls[i]], NL)

\* C3: the WebVTT output is the fixed header followed by the SRT output of
\* the same segments with the comma of every timestamp replaced by a period
C3_VttIsSrtWithPeriods ==
    (srtContent.called /\ vttContent.called) =>
        /\ srtContent.value = join(srtBlocks, NL)
        /\ vttContent.value =
              <<"W", "E", "B", "V", "T", "T", "\n", "\n">>
                  \o join([k \in 1..Len(srtBlocks) |-> WithPeriodTiming(srtBlocks[k])], NL)

\* C3 witness: both formats built from two segments, one with a comma in its
\* text and one wrapped on two lines
C3_Witness ==
    /\ srtContent.called /\ vttContent.called
    /\ Len(segments) = 2
    /\ segments[1].text = CommaText
    /\ segments[2].text = TwoLineText

\* C4: an empty segment list is not an error: the SRT builder returns the
\* empty string and the WebVTT builder the header alone, with no block
C4_EmptyTrack ==
    segments = <<>> =>
        /\ srtContent.called =>
              (~srtContent.threw /\ srtContent.value = <<>> /\ srtBlocks = <<>>)
        /\ vttContent.called =>
              /\ ~vttContent.threw
              /\ vttContent.value = <<"W", "E", "B", "V", "T", "T", "\n", "\n">>
              /\ vttCues = <<>>

\* C4 witness: both builders ran on the empty list
C4_Witness == segments = <<>> /\ srtContent.called /\ vttContent.called

-----------------------------------------------------------------------------
(* Claims about the line wrapper, checked under SpecWrap *)

\* C10: _splitTextIntoLines returns 1 or 2 lines for every text and every
\* positive maxLength, never 0 lines and never more than 2
C10_OneOrTwoLines ==
    textLines.called => Len(textLines.value) \in {1, 2}

\* the number of blanks of a text
BlankCount(s) == Cardinality({i \in 1..Len(s) : s[i] = " "})

\* C11: a text of at most maxLength characters comes back as the one-element
\* list [text], unchanged, the empty text and a text of exactly maxLength
\* characters included
C11_ShortTextUnchanged ==
    /\ (textLines.called /\ Len(text) <= maxLength) => textLines.value = <<text>>
    /\ (textLines.called /\ text = HiThere /\ maxLength = 42)
          => textLines.value = << <<"H", "i", " ", "t", "h", "e", "r", "e">> >>

\* C11 witness: a text of exactly maxLength characters that trimming or
\* splitting would change
C11_Witness ==
    /\ textLines.called
    /\ Len(text) = maxLength
    /\ text[1] = " "
    /\ BlankCount(text) >= 2

\* C12: when the greedy wrapping has more than 2 lines, the result is exactly
\* 2 lines: the text cut at the blank that follows its first
\* ceil(wordCount / 2) words, the words being the pieces between single
\* blanks, whatever the widths of the two lines
C12_MidpointFallback ==
    (textLines.called /\ Len(text) > maxLength /\ Len(greedyLines(text, maxLength)) > 2)
        => LET wordCount == BlankCount(text) + 1
               half == (wordCount + 1) \div 2
           IN  /\ Len(textLines.value) = 2
               /\ textLines.value[1] \o <<" ">> \o textLines.value[2] = text
               /\ BlankCount(textLines.value[1]) = half - 1

\* C12 witness: three greedy lines from an odd number of words, the halves
\* wider than maxLength
C12_Witness ==
    /\ textLines.called
    /\ Len(greedyLines(text, maxLength)) > 2
    /\ BlankCount(text) = 2
    /\ Len(textLines.value[1]) > maxLength

\* line is one whole word of txt: a run without blank, between blanks or the
\* ends of txt
IsWordOf(line, txt) ==
    /\ Len(line) > 0
    /\ BlankCount(line) = 0
    /\ \E i \in 1..(Len(txt) - Len(line) + 1) :
          /\ SubSeq(txt, i, i + Len(line) - 1) = line
          /\ (i = 1 \/ txt[i - 1] = " ")
          /\ (i + Len(line) - 1 = Len(txt) \/ txt[i + Len(line)] = " ")

\* C13: when the greedy wrapping is returned, every line is at most maxLength
\* characters long or is one single word longer than maxLength, whole and
\* unmodified; one 34-character word at width 10 yields exactly that word
C13_GreedyLineWidth ==
    /\ (textLines.called /\ Len(text) > maxLength
            /\ Len(greedyLines(text, maxLength)) <= 2)
          => \A k \in 1..Len(textLines.value) :
                \/ Len(textLines.value[k]) <= maxLength
                \/ IsWordOf(textLines.value[k], text)
    /\ (textLines.called /\ text = LongWord /\ maxLength = 10)
          => textLines.value = <<LongWord>>

\* C13 witness: a greedy result of two lines, the first a word wider than
\* maxLength and the second two words that fit
C13_Witness ==
    /\ textLines.called
    /\ Len(text) > maxLength
    /\ Len(greedyLines(text, maxLength)) = 2
    /\ Len(textLines.value) = 2
    /\ Len(textLines.value[1]) > maxLength
    /\ BlankCount(textLines.value[2]) = 1
    /\ Len(textLines.value[2]) <= maxLength

\* the words of the text are separated by single blanks, with no blank at
\* its start or end
SingleSpaced(txt) ==
    /\ Len(txt) > 0 => (txt[1] # " " /\ txt[Len(txt)] # " ")
    /\ \A i \in 1..(Len(txt) - 1) : ~(txt[i] = " " /\ txt[i + 1] = " ")

\* C25: for a text of words separated by single blanks, the returned lines
\* joined by one blank are the text again: no word is lost, repeated,
\* altered or moved, on the single-line, greedy and midpoint paths alike
C25_WordsPreserved ==
    (textLines.called /\ SingleSpaced(text))
        => /\ ~textLines.threw
           /\ join(textLines.value, <<" ">>) = text

\* C25 witness: a greedy wrapping of three words on two lines
C25_Witness ==
    /\ textLines.called
    /\ SingleSpaced(text)
    /\ Len(text) > maxLength
    /\ BlankCount(text) = 2
    /\ Len(greedyLines(text, maxLength)) = 2
    /\ textLines.value = greedyLines(text, maxLength)

\* C25 witness of the midpoint path
C25_WitnessMidpoint ==
    /\ textLines.called
    /\ SingleSpaced(text)
    /\ Len(greedyLines(text, maxLength)) > 2
    /\ Len(text) > maxLength

-----------------------------------------------------------------------------
(* Claims about the shifter, checked under SpecShift *)

\* the first position of part in s, 0 when s does not contain it
IndexOf(s, part) ==
    LET at == {i \in 1..(Len(s) - Len(part) + 1) : SubSeq(s, i, i + Len(part) - 1) = part}
    IN  IF at = {} THEN 0 ELSE CHOOSE i \in at : \A j \in at : i <= j

\* the line is a timing line, ' --> ' between two tokens, and one of the
\* tokens is not a timestamp HH:MM:SS,mmm
HasMalformedToken(line) ==
    LET p == IndexOf(line, Arrow)
    IN  /\ p > 0
        /\ \/ ~HasShape(SubSeq(line, 1, p - 1), ",")
           \/ ~HasShape(SubSeq(line, p + Len(Arrow), Len(line)), ",")

TrackHasMalformedToken(track) ==
    LET ls == split(track, "\n")
    IN  \E i \in 1..Len(ls) : HasMalformedToken(ls[i])

\* C9: when a timing line of the input has a token that does not parse, the
\* shift aborts with an error: shiftSubtitles returns no text, no output file
\* is written, the process does not end with status 0, and no output ever
\* holds 'NaN:NaN:NaN,NaN'
C9_MalformedAborts ==
    /\ (pc \in {"shifted", "done", "exited"} /\ shifted.called
            /\ TrackHasMalformedToken(content))
          => (shifted.threw /\ ~outputFile.called /\ exitCode = 1)
    /\ outputFile.called =>
          ~includes(outputFile.value,
                    <<"N", "a", "N", ":", "N", "a", "N", ":", "N", "a", "N", ",",
                      "N", "a", "N">>)

\* the lines of a track
LinesOf(track) == split(track, "\n")

\* the milliseconds a text HH:MM:SS,mmm stands for, read independently of
\* the code
StampValue(txt) ==
    LET n == Len(txt)
    IN  DecimalValue(SubSeq(txt, 1, n - 10)) * 3600000
          + DecimalValue(SubSeq(txt, n - 8, n - 7)) * 60000
          + DecimalValue(SubSeq(txt, n - 5, n - 4)) * 1000
          + DecimalValue(SubSeq(txt, n - 2, n))

\* the texts before and after the first ' --> ' of a line
StartOf(line) == SubSeq(line, 1, IndexOf(line, Arrow) - 1)
EndOf(line) == SubSeq(line, IndexOf(line, Arrow) + Len(Arrow), Len(line))

\* the line is 'S --> E' with S and E of the shape HH:MM:SS,mmm
IsWellFormedTiming(line) ==
    /\ IndexOf(line, Arrow) > 0
    /\ HasShape(StartOf(line), ",")
    /\ HasShape(EndOf(line), ",")

\* d is Math.round(ticks / TicksPerMs): the nearest integer, a half rounded up
IsRounded(d, ticks) ==
    /\ 2 * d * TicksPerMs <= 2 * ticks + TicksPerMs
    /\ 2 * ticks + TicksPerMs < 2 * (d + 1) * TicksPerMs

\* the integers around ticks / TicksPerMs
NearMs(ticks) == ((ticks \div TicksPerMs) - 1)..((ticks \div TicksPerMs) + 1)

AtLeastZero(x) == IF x < 0 THEN 0 ELSE x

\* C14: a line is treated as a timing line if and only if it contains
\* ' --> ': a line of the track without that substring, such as caption text
\* with '-->', is pushed unchanged, and a line with it is rewritten around
\* ' --> '
C14_TimingLineIffSpacedArrow ==
    (pc \in {"shifted", "done", "exited"} /\ shifted.called)
        => LET lines == LinesOf(content)
               offsetMs == offsetMsOf(offsetSeconds)
           IN  /\ \A i \in 1..Len(lines) :
                     ~includes(lines[i], Arrow)
                         => shiftLine(lines[i], offsetMs) = Returned(lines[i])
               /\ \A i \in 1..Len(lines) :
                     IsWellFormedTiming(lines[i])
                         => /\ ~shiftLine(lines[i], offsetMs).threw
                            /\ IsWellFormedTiming(shiftLine(lines[i], offsetMs).value)
               /\ (\A i \in 1..Len(lines) : ~includes(lines[i], Arrow))
                     => shifted = Returned(content)

\* C15: the output has as many lines as the input, and every line that is no
\* timing line (no ' --> ' in it) is the same text at the same position, for
\* every offset
C15_OtherLinesUntouched ==
    (pc \in {"shifted", "done"} /\ shifted.called /\ ~shifted.threw)
        => LET lines == LinesOf(content)
               out == LinesOf(shifted.value)
           IN  /\ Len(out) = Len(lines)
               /\ \A i \in 1..Len(lines) :
                     ~includes(lines[i], Arrow) => out[i] = lines[i]

\* C16: every well-formed timing line 'S --> E' is emitted as the timestamps
\* of max(0, S + d) and max(0, E + d) around ' --> ' and nothing else, with
\* d = round(offsetSeconds * 1000); 00:00:01,000 --> 00:00:04,000 shifted by
\* -5 seconds is 00:00:00,000 --> 00:00:00,000
C16_TimingLineShifted ==
    /\ (pc \in {"shifted", "done"} /\ shifted.called /\ ~shifted.threw)
          => LET lines == LinesOf(content)
                 out == LinesOf(shifted.value)
             IN  \E d \in NearMs(offsetSeconds.n) :
                    /\ IsRounded(d, offsetSeconds.n)
                    /\ \A i \in 1..Len(lines) :
                          IsWellFormedTiming(lines[i])
                              => /\ IndexOf(out[i], Arrow) > 0
                                 /\ IsStampOf(StartOf(out[i]), ",",
                                       AtLeastZero(StampValue(StartOf(lines[i])) + d))
                                 /\ IsStampOf(EndOf(out[i]), ",",
                                       AtLeastZero(StampValue(EndOf(lines[i])) + d))
    /\ (pc \in {"shifted", "done"} /\ shifted.called /\ content = Canonical
            /\ offsetSeconds = Num(-5000 * TicksPerMs))
          => shifted = Returned(ZeroSRT \o Arrow \o ZeroSRT)

\* C16 witness: a shift backward by 5 seconds of a track with a timing line
\* that is clamped and one that is not
C16_Witness ==
    /\ pc = "done"
    /\ offsetSeconds = Num(-5000 * TicksPerMs)
    /\ content = join(<<Canonical, LongCanonical>>, NL)
    /\ outputFile.called

\* C16 witness: an offset of half a millisecond, rounded up to one
C16_WitnessHalf ==
    /\ pc = "done"
    /\ 2 * offsetSeconds.n = TicksPerMs
    /\ content = Canonical
    /\ StampValue(StartOf(outputFile.value)) = 1001

\* txt is a canonical timestamp: two-digit minutes and seconds below 60, and
\* the hours on two digits or without a leading zero
IsCanonicalStamp(txt) ==
    /\ HasShape(txt, ",")
    /\ IsStampOf(txt, ",", StampValue(txt))

\* every timing line of the track (a line with ' --> ') is made of two
\* canonical timestamps
IsCanonicalTrack(track) ==
    \A i \in 1..Len(LinesOf(track)) :
        includes(LinesOf(track)[i], Arrow)
            => /\ IsWellFormedTiming(LinesOf(track)[i])
               /\ IsCanonicalStamp(StartOf(LinesOf(track)[i]))
               /\ IsCanonicalStamp(EndOf(LinesOf(track)[i]))

\* C17: a canonical track shifted by zero is the same text, and shifting the
\* result by zero again gives it once more
C17_ZeroShiftIdentity ==
    /\ (pc \in {"shifted", "done", "exited"} /\ shifted.called
            /\ offsetSeconds = Num(0) /\ IsCanonicalTrack(content))
          => shifted = Returned(content)
    /\ (pc \in {"shifted", "done", "exited"} /\ shifted.called /\ firstRun.called
            /\ offsetSeconds = Num(0) /\ firstRun.value.offsetSeconds = Num(0)
            /\ IsCanonicalTrack(firstRun.value.content))
          => shifted = Returned(firstRun.value.output)

\* some timestamp of the track plus d is below zero
Clamps(track, d) ==
    \E i \in 1..Len(LinesOf(track)) :
        /\ IsWellFormedTiming(LinesOf(track)[i])
        /\ \/ StampValue(StartOf(LinesOf(track)[i])) + d < 0
           \/ StampValue(EndOf(LinesOf(track)[i])) + d < 0

\* C18: a canonical track shifted by d and then by -d is the same track when
\* no timestamp plus d is below zero; when one is, the track is not recovered
C18_NegationInverts ==
    (pc \in {"shifted", "done", "exited"} /\ shifted.called /\ firstRun.called
        /\ IsCanonicalTrack(firstRun.value.content))
        => \A d \in NearMs(firstRun.value.offsetSeconds.n) :
              (IsRounded(d, firstRun.value.offsetSeconds.n)
                  /\ IsRounded(-d, offsetSeconds.n))
                  => IF Clamps(firstRun.value.content, d)
                     THEN shifted.threw \/ shifted.value # firstRun.value.content
                     ELSE shifted = Returned(firstRun.value.content)

\* the timestamps of a track, each with its line and side, for the
\* well-formed timing lines
StampPlaces(track) ==
    { <<i, side>> : i \in { l \in 1..Len(LinesOf(track)) :
                               IsWellFormedTiming(LinesOf(track)[l]) },
                    side \in {"start", "end"} }

\* the milliseconds of the timestamp at a place of a track
ValueAt(track, place) ==
    IF place[2] = "start" THEN StampValue(StartOf(LinesOf(track)[place[1]]))
    ELSE StampValue(EndOf(LinesOf(track)[place[1]]))

\* C26: shifting is monotone: two timestamps a <= b of the input track have
\* shifted values a' <= b', so start <= end and the order of blocks are
\* kept, and a block's duration is kept unless one of its two timestamps
\* was clamped to zero
C26_Monotone ==
    (pc \in {"shifted", "done"} /\ shifted.called /\ ~shifted.threw)
        => /\ \A p \in StampPlaces(content) :
                 IsWellFormedTiming(LinesOf(shifted.value)[p[1]])
           /\ \A p, q \in StampPlaces(content) :
                 ValueAt(content, p) <= ValueAt(content, q)
                     => ValueAt(shifted.value, p) <= ValueAt(shifted.value, q)
           /\ \A p \in StampPlaces(content) :
                 (p[2] = "start" /\ ValueAt(shifted.value, p) > 0)
                     => ValueAt(shifted.value, <<p[1], "end">>)
                            - ValueAt(shifted.value, p)
                          = ValueAt(content, <<p[1], "end">>) - ValueAt(content, p)

\* C26 witness: two blocks shifted backward by 3 seconds, the start of the
\* first one clamped to zero and its end not
C26_Witness ==
    /\ pc = "done"
    /\ offsetSeconds = Num(-3000 * TicksPerMs)
    /\ content = join(<<Canonical, LongCanonical>>, NL)
    /\ ValueAt(outputFile.value, <<1, "start">>) = 0
    /\ ValueAt(outputFile.value, <<1, "end">>) = 1000

\* C27: for a canonical track and millisecond offsets a and b of the same
\* sign, shifting by a and then by b gives what shifting by a + b gives,
\* clamping included
C27_SameSignCompose ==
    (pc \in {"shifted", "done", "exited"} /\ shifted.called /\ firstRun.called
        /\ IsCanonicalTrack(firstRun.value.content))
        => \A a \in NearMs(firstRun.value.offsetSeconds.n), b \in NearMs(offsetSeconds.n) :
              (/\ IsRounded(a, firstRun.value.offsetSeconds.n)
               /\ IsRounded(b, offsetSeconds.n)
               /\ ((a >= 0 /\ b >= 0) \/ (a <= 0 /\ b <= 0)))
                  => shifted = shiftSubtitles(firstRun.value.content, Num(a + b))

\* C27 witness: a block shifted backward twice by 3 seconds, clamped in part
\* by the first shift and wholly by the second
C27_Witness ==
    /\ pc = "done"
    /\ firstRun.called
    /\ firstRun.value.content = join(<<Canonical, LongCanonical>>, NL)
    /\ firstRun.value.offsetSeconds = Num(-3000 * TicksPerMs)
    /\ offsetSeconds = Num(-3000 * TicksPerMs)
    /\ ValueAt(firstRun.value.output, <<1, "end">>) = 1000
    /\ ValueAt(outputFile.value, <<1, "end">>) = 0

-----------------------------------------------------------------------------
(* Claims about the translator, checked under SpecTranslate *)

\* C19: whatever text the service returned, translateSegments returns a list
\* as long as segments whose element at position i has the id, start and
\* end of segment i
C19_SameTiming ==
    (translatePc = "returned" /\ translatedSegments.called /\ ~translatedSegments.threw)
        => /\ Len(translatedSegments.value) = Len(sourceSegments)
           /\ \A i \in 1..Len(sourceSegments) :
                 /\ translatedSegments.value[i].id = sourceSegments[i].id
                 /\ translatedSegments.value[i].start = sourceSegments[i].start
                 /\ translatedSegments.value[i].end = sourceSegments[i].end

\* the texts the answer gives for the segment of index k
TranslationsOf(messageContent, k) ==
    LET translatedLines == translatedLinesOf(messageContent)
    IN  { matchLine(translatedLines[j]).text :
            j \in { l \in 1..Len(translatedLines) :
                      /\ matchLine(translatedLines[l]).matched
                      /\ matchLine(translatedLines[l]).index = k } }

\* the number of lines of the answer that are a translation of a segment
ParsedCount(segs, messageContent) ==
    LET translatedLines == translatedLinesOf(messageContent)
    IN  Cardinality({ l \in 1..Len(translatedLines) :
                        /\ matchLine(translatedLines[l]).matched
                        /\ matchLine(translatedLines[l]).index < Len(segs) })

\* C20: when the number of parsed translated lines is not the number of
\* segments, translateSegments still returns: a segment without translated
\* line is at its own position with its original text, a segment with one is
\* at its own position with a translated text
C20_MissingKeepOriginal ==
    (translatePc = "returned" /\ completion.called /\ ~completion.threw
        /\ ParsedCount(sourceSegments, completion.value) # Len(sourceSegments))
        => /\ translatedSegments.called
           /\ ~translatedSegments.threw
           /\ Len(translatedSegments.value) = Len(sourceSegments)
           /\ \A i \in 1..Len(sourceSegments) :
                 /\ translatedSegments.value[i].id = sourceSegments[i].id
                 /\ IF TranslationsOf(completion.value, i - 1) = {}
                    THEN translatedSegments.value[i].text = sourceSegments[i].text
                    ELSE translatedSegments.value[i].text
                            \in TranslationsOf(completion.value, i - 1)

-----------------------------------------------------------------------------
(* Claims about the generator, checked under SpecGenerate *)

\* the positions of the events of one kind
EventsAt(kind) == {k \in 1..Len(events) : events[k][1] = kind}

\* the timing lines of a subtitle file, in order
TimingLinesOf(fileContent) ==
    SelectSeq(split(fileContent, "\n"), LAMBDA line : includes(line, Arrow))

\* C21: a multi-language run that returns made exactly one extraction and
\* one transcription and wrote one file per target language, named
\* '<output name>.<lang>.srt', in the order of the languages; all the files
\* have the same number of blocks and the same timing lines
C21_OneFilePerLanguage ==
    (generatePc = "returned" /\ Len(targetLanguages) > 0)
        => /\ Cardinality(EventsAt("extract")) = 1
           /\ Cardinality(EventsAt("transcribe")) = 1
           /\ Len(outputFiles) = Len(targetLanguages)
           /\ \A i \in 1..Len(outputFiles) :
                 outputFiles[i].path = <<"video", ".", targetLanguages[i], ".srt">>
           /\ \A i, j \in 1..Len(outputFiles) :
                 TimingLinesOf(outputFiles[i].content)
                     = TimingLinesOf(outputFiles[j].content)

\* C22: the stages are sequential: extraction is called only with a track
\* selected, transcription only after the extraction resolved, a file is
\* written only after the transcription resolved; when the analysis, the
\* selection, the extraction or the transcription fails the call throws and
\* no file is written
C22_StagesSequential ==
    /\ \A k \in EventsAt("extract") :
          /\ selectedTrack.called /\ ~selectedTrack.threw
          /\ \E j \in EventsAt("analyzed") : j < k
    /\ \A k \in EventsAt("transcribe") :
          /\ audioPath.called /\ ~audioPath.threw
          /\ \E j \in EventsAt("extracted") : j < k
          /\ \A j \in EventsAt("extract") : j < k
    /\ \A k \in EventsAt("write") \cup EventsAt("written") :
          /\ transcription.called /\ ~transcription.threw
          /\ \E j \in EventsAt("transcribed") : j < k
          /\ \A j \in EventsAt("transcribe") : j < k
    /\ Len(outputFiles) = Cardinality(EventsAt("written"))
    /\ \A k \in EventsAt("failed") :
          /\ k = Len(events)
          /\ generatePc = "thrown"
          /\ events[k][2] \in {"analysis", "selection", "extraction", "transcription"}
                => (outputFiles = <<>> /\ EventsAt("write") = {})

\* C22 witness: a run that failed at the transcription, after the
\* extraction of the second track
C22_Witness ==
    /\ generatePc = "thrown"
    /\ events[Len(events)] = <<"failed", "transcription">>
    /\ audioPath = Returned(tmpAudioPath(1))

\* C22 witness of a run that wrote two files and returned
C22_WitnessReturned ==
    /\ generatePc = "returned"
    /\ Len(outputFiles) = 2

\* the two codes name the same language for the transcription service
SameLanguage(code, other) ==
    /\ convertToWhisperLanguageCode(code) # "undefined"
    /\ convertToWhisperLanguageCode(code) = convertToWhisperLanguageCode(other)

\* the target languages that are not the language of the transcription, in
\* order
RECURSIVE OtherLanguages(_, _)
OtherLanguages(targets, transcribedIn) ==
    IF targets = <<>> THEN <<>>
    ELSE IF SameLanguage(targets[1], transcribedIn)
    THEN OtherLanguages(Tail(targets), transcribedIn)
    ELSE <<targets[1]>> \o OtherLanguages(Tail(targets), transcribedIn)

\* C24: a target language that is the language the audio was transcribed in
\* is written from the transcription's own segments without a translator
\* call, whatever form its code takes ('en' for a track in 'eng'); every
\* other target language makes exactly one translateSegments call
C24_OriginalNotTranslated ==
    (generatePc = "returned" /\ Len(targetLanguages) > 0 /\ transcriptionLanguage # "")
        => /\ [k \in 1..Cardinality(EventsAt("translate")) |->
                  events[CHOOSE e \in EventsAt("translate") :
                            Cardinality({d \in EventsAt("translate") : d <= e}) = k][2]]
                = OtherLanguages(targetLanguages, transcriptionLanguage)
           /\ \A i \in 1..Len(outputFiles) :
                 SameLanguage(targetLanguages[i], transcriptionLanguage)
                     => outputFiles[i].content = generateSRT(transcription.value)

\* C28: when generateSubtitles has finished, by a return or by a throw, the
\* temporary audio file it extracted is no longer there
C28_TempAudioRemoved ==
    (generatePc \in {"returned", "thrown"} /\ audioPath.called /\ ~audioPath.threw)
        => audioPath.value \notin tmpFileDir

\* C30: without audio track, or with a specified track number that no track
\* has, the call fails before any extraction or transcription; otherwise
\* the track selected is the specified one, or the first one when there is
\* one track only or with autoConfirm, or the one chosen at the prompt, and
\* it is that track's index that is extracted
C30_TrackSelection ==
    /\ (EventsAt("analyzed") # {}
          /\ \/ Len(audioTracks) = 0
             \/ (~trackNumber.null
                   /\ \A i \in 1..Len(audioTracks) : audioTracks[i].index # trackNumber.n))
          => /\ generatePc = "thrown"
             /\ EventsAt("extract") = {}
             /\ EventsAt("transcribe") = {}
    /\ (selectedTrack.called /\ ~selectedTrack.threw)
          => /\ \E i \in 1..Len(audioTracks) : selectedTrack.value = audioTracks[i]
             /\ ~trackNumber.null => selectedTrack.value.index = trackNumber.n
             /\ (trackNumber.null /\ (Len(audioTracks) = 1 \/ autoConfirm))
                   => selectedTrack.value = audioTracks[1]
             /\ (trackNumber.null /\ Len(audioTracks) # 1 /\ ~autoConfirm)
                   => EventsAt("prompt") # {}
             /\ EventsAt("prompt") # {}
                   => (trackNumber.null /\ Len(audioTracks) > 1 /\ ~autoConfirm)
    /\ Cardinality(EventsAt("extract")) <= 1
    /\ \A k \in EventsAt("extract") :
          /\ selectedTrack.called /\ ~selectedTrack.threw
          /\ events[k][2] = selectedTrack.value.index
    /\ (generatePc \in {"extracting", "transcribing", "translating", "writing",
                        "removing", "returned"})
          => Cardinality(EventsAt("extract")) = 1

\* C30 witness: the second of two tracks specified with autoConfirm set, and
\* extracted
C30_Witness ==
    /\ trackNumber = Number(1)
    /\ autoConfirm
    /\ Len(audioTracks) = 2
    /\ audioPath = Returned(tmpAudioPath(1))

\* C30 witness of the prompt: the second track chosen and extracted
C30_WitnessPrompt ==
    /\ EventsAt("prompt") # {}
    /\ audioPath = Returned(tmpAudioPath(1))

-----------------------------------------------------------------------------
(* Claims about the batch extractor, checked under SpecBatch *)

\* the positions of the events of one kind in the log of the batch
BatchEventsAt(kind) == {j \in DOMAIN batchLog : batchLog[j][1] = kind}

\* the positions where video k was counted as extracted, skipped or failed
OutcomesOf(k) ==
    {j \in DOMAIN batchLog :
        /\ batchLog[j][1] \in {"extracted", "skipped", "failed"}
        /\ batchLog[j][2] = k}

\* the videos extractFromVideo was called for
Entered == {batchLog[j][2] : j \in BatchEventsAt("enter")}

\* C29: processDirectory calls extractFromVideo for every found video once and
\* in the order of the list; a failed video is followed by the next one; each
\* video adds one to exactly one of extracted, skipped, failed, so that on
\* return extracted + skipped + failed = total = the number of videos found;
\* a video whose audio file exists is counted as skipped without analysis or
\* ffmpeg run, unless force is set, and with force nothing is skipped.
C29_EveryVideoCountedOnce ==
    /\ \A j, k \in BatchEventsAt("enter") :
          j < k => batchLog[j][2] < batchLog[k][2]
    /\ Entered = 1..videoAt
    /\ \A k \in 1..Len(videoFiles) :
          /\ Cardinality(OutcomesOf(k)) = (IF k < videoAt \/ (k = videoAt /\ batchPc = "returned")
                                           THEN 1 ELSE 0)
          /\ \A j \in OutcomesOf(k) :
                \E e \in BatchEventsAt("enter") : e < j /\ batchLog[e][2] = k
    /\ \A j \in BatchEventsAt("failed") :
          batchLog[j][2] < Len(videoFiles) =>
              /\ j < Len(batchLog)
              /\ batchLog[j + 1][1] = "enter"
              /\ batchLog[j + 1][2] = batchLog[j][2] + 1
    /\ \A counter \in {"extracted", "skipped", "failed"} :
          stats[counter] = Cardinality(BatchEventsAt(counter))
    /\ batchPc = "returned" =>
          /\ stats.extracted + stats.skipped + stats.failed = stats.total
          /\ stats.total = Len(videoFiles)
          /\ videoAt = Len(videoFiles)
    /\ \A j \in BatchEventsAt("enter") :
          (batchLog[j][3] /\ ~force) =>
              IF j = Len(batchLog)
              THEN batchPc = "checking"
              ELSE batchLog[j + 1] = <<"skipped", batchLog[j][2]>>
    /\ force => BatchEventsAt("skipped") = {}
    /\ \A j \in BatchEventsAt("ffmpeg") :
          \E e \in BatchEventsAt("enter") :
              /\ e < j
              /\ batchLog[e][2] = batchLog[j][2]
              /\ (force \/ ~batchLog[e][3])

\* processDirectory returned after three videos: the first had its audio file
\* and was skipped, the second failed, the third was extracted
C29_Witness ==
    /\ batchPc = "returned"
    /\ Len(videoFiles) = 3
    /\ ~force
    /\ batchLog[1] = <<"enter", 1, TRUE>>
    /\ batchLog[2] = <<"skipped", 1>>
    /\ \E j \in BatchEventsAt("failed") : batchLog[j][2] = 2
    /\ \E j \in BatchEventsAt("extracted") : batchLog[j][2] = 3
    /\ stats = [total |-> 3, extracted |-> 1, skipped |-> 1, failed |-> 1]

\* with force a video whose audio file exists is extracted again
C29_WitnessForce ==
    /\ batchPc = "returned"
    /\ force
    /\ batchLog[1] = <<"enter", 1, TRUE>>
    /\ \E j \in BatchEventsAt("ffmpeg") : batchLog[j][2] = 1
    /\ stats.extracted >= 1

-----------------------------------------------------------------------------
(* Claims about the generate-and-sync pipeline, checked under SpecPipeline *)

\* the positions of the events of one kind in the log of the pipeline
PipeEventsAt(kind) == {j \in DOMAIN pipeLog : pipeLog[j][1] = kind}

\* the positions where a child process was spawned for a command
SpawnsOf(command) == {j \in PipeEventsAt("spawn") : pipeLog[j][2] = command}

\* the .mp3 next to the video: the input path with .mp3 for its extension
Mp3NextToVideo ==
    (IF extname(inputFile) = "" THEN inputFile
     ELSE SubSeq(inputFile, 1, Len(inputFile) - 1)) \o <<".mp3">>

C23_WitnessFailed ==
    /\ exitStatus = Number(1)
    /\ ~skipSync
    /\ \E j \in PipeEventsAt("closed") : pipeLog[j] = <<"closed", "node", 1>>
    /\ SpawnsOf("ffsubsync") = {}

=============================================================================
